---- MODULE Spec2Model ----
(***************************************************************************)
(* A model of protog's descriptor pipeline (main.go): import resolution    *)
(* (readProtosAndDeps, readProtos, search), lowering of the parsed files   *)
(* (protosToFDS, protoToFD) and the driver run.                            *)
(*                                                                         *)
(* readProtos is a recursive function.  Its activation records are the     *)
(* frames of `stack`; one action is one step of the innermost activation.  *)
(* The file system is an input the program only reads: whether a path can  *)
(* be opened is fixed the first time it is probed (fsys), the content of a *)
(* stream the first time it is read (disk).                                *)
(*                                                                         *)
(* Functions are checked on their own through `call`: the lowering, the    *)
(* parser's grammar (parser.go) on token streams, httprule, the dynamic    *)
(* type registry (registry/types.go) and pb's lookupMessage.               *)
(***************************************************************************)
EXTENDS Integers, Sequences, FiniteSets, TLC

(* ---------------------------------------------------------------- bounds *)
\* longest list of top-level entries in one file
MaxEntries == 2
\* deepest nesting of readProtos activations the model follows
MaxDepth == 3
\* longest list of import roots (-I) search is checked on
MaxRoots == 2
\* longest list of top-level entries protoToFD is checked on
MaxLowerEntries == 3
\* the entries of a message message is called on
MaxMessageEntries == 2
\* the entries of an enum enum is called on
MaxEnumEntries == 2
\* the characters of a name jsonStr is called on
MaxNameLen == 4
\* the files protosToFDS is called on
MaxProtos == 2

(* ------------------------------------------------------------ Go values *)
\* a nil pointer / nil error / absent value, and a present one
None == <<>>
Some(x) == <<x>>
Val(o) == o[1]
\* an error value: its message, and for fmt.Errorf its argument
Err(msg) == <<msg>>
\* fmt.Errorf("cannot find %q on import paths", filename)
ErrNotFound(filename) == <<"cannot find on import paths", filename>>

Roots == {"r1", "r2"}
Names == {"a.proto", "b.proto"}
\* c.Filename: the entry file, opened relative to the working directory
EntryNames == {"a.proto", "main.proto"}
\* the stream c.in of the entry file (cli.AfterApply)
Stdin(filename) == <<"cwd", filename>>

\* sequences over S of length at most n
RECURSIVE SeqUpTo(_, _)
SeqUpTo(S, n) ==
    IF n = 0 THEN {<<>>}
    ELSE LET shorter == SeqUpTo(S, n - 1) IN
         shorter \cup {Append(s, x) : s \in {t \in shorter : Len(t) = n - 1}, x \in S}

(* ------------------------------------------------------------------ AST *)
\* parser.Entry as protoToFD and readProtos read it: exactly one branch set
ZeroEntry ==
    [Syntax |-> "", Package |-> "", Import |-> "", Message |-> None,
     Enum |-> None, Service |-> None, Option |-> None, Extend |-> None]
SyntaxEntry(s) == [ZeroEntry EXCEPT !.Syntax = s]
PackageEntry(s) == [ZeroEntry EXCEPT !.Package = s]
ImportEntry(s) == [ZeroEntry EXCEPT !.Import = s]

\* the entries of the files of the resolution specification
ResolveEntries == {ImportEntry(n) : n \in Names} \cup {PackageEntry("pkg")}

\* what parser.Parse returns for a stream: (p, nil) or (nil, err)
ParseOf(entries) == [p |-> Some([Filename |-> "", Entries |-> entries]), err |-> None]
ParseErrOf == [p |-> None, err |-> Some(Err("parse error"))]
ResolveParses == {ParseOf(es) : es \in SeqUpTo(ResolveEntries, MaxEntries)} \cup {ParseErrOf}

(* --------------------------------------------------------------- search *)
\* filepath.Join(pth, filename)
Join(pth, filename) == <<pth, filename>>

\* os.Open(fname) succeeds
CanOpen(fsys, fname) == fname \in fsys

RECURSIVE searchFrom(_, _, _, _)
searchFrom(fsys, paths, filename, k) ==
    IF k > Len(paths)
    THEN [f |-> None, err |-> Some(ErrNotFound(filename))]
    ELSE IF CanOpen(fsys, Join(paths[k], filename))
         THEN [f |-> Some(Join(paths[k], filename)), err |-> None]
         ELSE searchFrom(fsys, paths, filename, k + 1)

\* mutant: the roots are probed from the last to the first
RECURSIVE searchBackFrom(_, _, _, _)
searchBackFrom(fsys, paths, filename, k) ==
    IF k < 1
    THEN [f |-> None, err |-> Some(ErrNotFound(filename))]
    ELSE IF CanOpen(fsys, Join(paths[k], filename))
         THEN [f |-> Some(Join(paths[k], filename)), err |-> None]
         ELSE searchBackFrom(fsys, paths, filename, k - 1)
searchBackwards(fsys, paths, filename) == searchBackFrom(fsys, paths, filename, Len(paths))

search(fsys, paths, filename) == searchFrom(fsys, paths, filename, 1)

(* -------------------------------------------------------------- lowering *)
\* strings the lowerer takes apart are sequences of characters
Lower(c) ==
    CASE c = "A" -> "a" [] c = "B" -> "b" [] c = "F" -> "f" [] OTHER -> c
Upper(c) ==
    CASE c = "a" -> "A" [] c = "b" -> "B" [] c = "f" -> "F" [] OTHER -> c
\* strings.ToLower(s)
ToLower(s) == [k \in 1..Len(s) |-> Lower(s[k])]
\* strings.Title(s) of a string of letters, digits: the first letter in upper case
Title(s) == [k \in 1..Len(s) |-> IF k = 1 THEN Upper(s[k]) ELSE s[k]]

\* strings.Split(s, "_"): cur is the segment being read
RECURSIVE SplitFrom(_, _, _, _)
SplitFrom(s, k, cur, acc) ==
    IF k > Len(s) THEN Append(acc, cur)
    ELSE IF s[k] = "_" THEN SplitFrom(s, k + 1, <<>>, Append(acc, cur))
         ELSE SplitFrom(s, k + 1, Append(cur, s[k]), acc)
Split(s) == SplitFrom(s, 1, <<>>, <<>>)

RECURSIVE jsonStrFrom(_, _, _)
jsonStrFrom(result, ss, k) ==
    IF k > Len(ss) THEN result
    ELSE jsonStrFrom(result \o Title(ToLower(ss[k])), ss, k + 1)
\* mutant: the first segment keeps its case
jsonStrKeepsCase(s) == LET ss == Split(s) IN jsonStrFrom(ss[1], ss, 2)
jsonStr(s) == LET ss == Split(s) IN jsonStrFrom(ToLower(ss[1]), ss, 2)

\* parser.Scalar, and the map scalars
ScalarKinds ==
    {"Double", "Float", "Int32", "Int64", "Uint32", "Uint64", "Sint32", "Sint64",
     "Fixed32", "Fixed64", "SFixed32", "SFixed64", "Bool", "String", "Bytes"}
scalars(k) ==
    CASE k = "Double" -> "TYPE_DOUBLE" [] k = "Float" -> "TYPE_FLOAT"
      [] k = "Int32" -> "TYPE_INT32" [] k = "Int64" -> "TYPE_INT64"
      [] k = "Uint32" -> "TYPE_UINT32" [] k = "Uint64" -> "TYPE_UINT64"
      [] k = "Sint32" -> "TYPE_SINT32" [] k = "Sint64" -> "TYPE_SINT64"
      [] k = "Fixed32" -> "TYPE_FIXED32" [] k = "Fixed64" -> "TYPE_FIXED64"
      [] k = "SFixed32" -> "TYPE_SFIXED32" [] k = "SFixed64" -> "TYPE_SFIXED64"
      [] k = "Bool" -> "TYPE_BOOL" [] k = "String" -> "TYPE_STRING"
      [] k = "Bytes" -> "TYPE_BYTES"

field(pf) ==
    IF pf.Direct = None
    THEN [df |-> None, err |-> Some(Err("non-direct not implemented"))]
    ELSE LET d == Val(pf.Direct) IN
    IF d.Type.Scalar = "None"
    THEN [df |-> None, err |-> Some(Err("non-scalar not implemented"))]
    ELSE IF d.Type.Scalar \notin ScalarKinds
    THEN [df |-> None, err |-> Some(Err("unknown scalar type"))]
    ELSE [df |-> Some([Name |-> d.Name, Number |-> d.Tag, JsonName |-> jsonStr(d.Name),
                       Type |-> scalars(d.Type.Scalar), Label |-> "LABEL_OPTIONAL"]),
          err |-> None]

enumValue(pev) ==
    [e |-> Some([Name |-> pev.Key, Number |-> pev.Value, Options |-> None]),
     err |-> None]

\* the value of the constant in reserved: 2^31 - 1
MaxInt32 == 2147483647

\* mutant: max is not read, the range ends where the source says or at its start
reservedRangeIgnoresMax(st, r) ==
    IF r.Ident # ""
    THEN [st EXCEPT !.reservedNames = Append(@, r.Ident)]
    ELSE LET er0 == [Start |-> r.Start, End |-> r.Start]
             er1 == IF r.End # None THEN [er0 EXCEPT !.End = Val(r.End)] ELSE er0
         IN [st EXCEPT !.reservedRanges = Append(@, er1)]
\* one iteration of the loop of reserved: st is (reservedRanges, reservedNames)
reservedRange(st, r) ==
    IF r.Ident # ""
    THEN [st EXCEPT !.reservedNames = Append(@, r.Ident)]
    ELSE LET er0 == [Start |-> r.Start, End |-> r.Start]
             er1 == IF r.End # None THEN [er0 EXCEPT !.End = Val(r.End)] ELSE er0
             er2 == IF r.Max THEN [er1 EXCEPT !.End = MaxInt32] ELSE er1
         IN [st EXCEPT !.reservedRanges = Append(@, er2)]

RECURSIVE reservedFrom(_, _, _)
reservedFrom(st, rs, k) ==
    IF k > Len(rs) THEN st ELSE reservedFrom(reservedRange(st, rs[k]), rs, k + 1)

reserved(pr) ==
    reservedFrom([reservedRanges |-> <<>>, reservedNames |-> <<>>, err |-> None],
                 pr.Reserved, 1)

\* enum, case pev.Value: r is what enumValue returned
enumAddValue(st, r) ==
    IF r.err # None THEN [e |-> None, err |-> r.err]
    ELSE [st EXCEPT !.e.Value = Append(@, Val(r.e))]
\* enum, case pev.Reserved: r is what reserved returned
enumAddReserved(st, r) ==
    IF r.err # None THEN [e |-> None, err |-> r.err]
    ELSE [st EXCEPT !.e.ReservedRange = @ \o r.reservedRanges,
                    !.e.ReservedName = @ \o r.reservedNames]

\* one iteration of the loop of enum: st is (e, err)
enumEntry(st, pev) ==
    IF pev.Value # None THEN enumAddValue(st, enumValue(Val(pev.Value)))
    ELSE IF pev.Option # None THEN st
    ELSE IF pev.Reserved # None THEN enumAddReserved(st, reserved(Val(pev.Reserved)))
    ELSE [e |-> None, err |-> Some(Err("cannot interpret EnumEntry"))]

\* the loop of enum from values[k] on: an error ends it
RECURSIVE enumFrom(_, _, _)
enumFrom(st, values, k) ==
    IF k > Len(values) \/ st.err # None THEN st
    ELSE enumFrom(enumEntry(st, values[k]), values, k + 1)

\* return e, nil or nil, err
enumReturn(r) == IF r.err # None THEN r ELSE [e |-> Some(r.e), err |-> None]
enum(pe) ==
    enumReturn(enumFrom([e |-> [Name |-> pe.Name, Value |-> <<>>,
                                ReservedRange |-> <<>>, ReservedName |-> <<>>],
                         err |-> None], pe.Values, 1))

\* message, case e.Enum: r is what enum returned
messageAddEnum(st, r) ==
    IF r.err # None THEN [dp |-> None, err |-> r.err]
    ELSE [st EXCEPT !.dp.EnumType = Append(@, Val(r.e))]
\* message, case e.Field: r is what field returned
messageAddField(st, r) ==
    IF r.err # None THEN [dp |-> None, err |-> r.err]
    ELSE [st EXCEPT !.dp.Field = Append(@, Val(r.df))]

\* one iteration of the loop of message: st is (dp, err)
messageEntry(st, e) ==
    IF e.Enum # None THEN messageAddEnum(st, enum(Val(e.Enum)))
    ELSE IF \/ e.Option # None \/ e.Message # None \/ e.Oneof # None
            \/ e.Extend # None \/ e.Reserved # None \/ e.Extensions # None
    THEN st
    ELSE IF e.Field # None THEN messageAddField(st, field(Val(e.Field)))
    ELSE [dp |-> None, err |-> Some(Err("cannot interpret MessageEntry"))]

\* the loop of message from entries[k] on: an error ends it
RECURSIVE messageFrom(_, _, _)
messageFrom(st, entries, k) ==
    IF k > Len(entries) \/ st.err # None THEN st
    ELSE messageFrom(messageEntry(st, entries[k]), entries, k + 1)

\* return dp, nil or nil, err
messageReturn(r) == IF r.err # None THEN r ELSE [dp |-> Some(r.dp), err |-> None]
message(pm) ==
    messageReturn(messageFrom([dp |-> [Name |-> pm.Name, Field |-> <<>>,
                                       EnumType |-> <<>>],
                               err |-> None], pm.Entries, 1))

\* mutant: the message is put in front of those already lowered
protoToFDAddMessageInFront(st, r) ==
    IF r.err # None THEN [fd |-> None, err |-> r.err]
    ELSE [st EXCEPT !.fd.MessageType = <<Val(r.dp)>> \o @]
\* protoToFD, case e.Message: r is what message returned
protoToFDAddMessage(st, r) ==
    IF r.err # None THEN [fd |-> None, err |-> r.err]
    ELSE [st EXCEPT !.fd.MessageType = Append(@, Val(r.dp))]
\* protoToFD, case e.Enum: r is what enum returned
protoToFDAddEnum(st, r) ==
    IF r.err # None THEN [fd |-> None, err |-> r.err]
    ELSE [st EXCEPT !.fd.EnumType = Append(@, Val(r.e))]

NewFD(name) ==
    [Name |-> name, Syntax |-> None, Package |-> None, Dependency |-> <<>>,
     MessageType |-> <<>>, EnumType |-> <<>>]

\* mutant: a second syntax or package entry replaces the first
protoToFDEntryOverwrites(st, e) ==
    IF e.Syntax # "" THEN [st EXCEPT !.fd.Syntax = Some(e.Syntax)]
    ELSE IF e.Package # "" THEN [st EXCEPT !.fd.Package = Some(e.Package)]
    ELSE IF e.Import # "" THEN [st EXCEPT !.fd.Dependency = Append(@, e.Import)]
    ELSE IF e.Message # None THEN protoToFDAddMessage(st, message(Val(e.Message)))
    ELSE IF e.Enum # None THEN protoToFDAddEnum(st, enum(Val(e.Enum)))
    ELSE IF e.Service # None \/ e.Option # None \/ e.Extend # None THEN st
    ELSE [fd |-> None, err |-> Some(Err("cannot interpret Entry"))]

\* one iteration of the loop of protoToFD: st is (fd, err)
protoToFDEntry(st, e) ==
    IF e.Syntax # "" THEN
        IF st.fd.Syntax # None
        THEN [fd |-> None, err |-> Some(Err("found second syntax entries"))]
        ELSE [st EXCEPT !.fd.Syntax = Some(e.Syntax)]
    ELSE IF e.Package # "" THEN
        IF st.fd.Package # None
        THEN [fd |-> None, err |-> Some(Err("found second Package entries"))]
        ELSE [st EXCEPT !.fd.Package = Some(e.Package)]
    ELSE IF e.Import # "" THEN
        [st EXCEPT !.fd.Dependency = Append(@, e.Import)]
    ELSE IF e.Message # None THEN protoToFDAddMessage(st, message(Val(e.Message)))
    ELSE IF e.Enum # None THEN protoToFDAddEnum(st, enum(Val(e.Enum)))
    ELSE IF e.Service # None \/ e.Option # None \/ e.Extend # None THEN st
    ELSE [fd |-> None, err |-> Some(Err("cannot interpret Entry"))]

\* the loop of protoToFD from entries[k] on: an error ends it
RECURSIVE protoToFDFrom(_, _, _)
protoToFDFrom(st, entries, k) ==
    IF k > Len(entries) \/ st.err # None THEN st
    ELSE protoToFDFrom(protoToFDEntry(st, entries[k]), entries, k + 1)

\* return fd, nil or nil, err
protoToFDReturn(r) == IF r.err # None THEN r ELSE [fd |-> Some(r.fd), err |-> None]
protoToFD(pp) ==
    protoToFDReturn(protoToFDFrom([fd |-> NewFD(pp.Filename), err |-> None],
                                  pp.Entries, 1))

\* protosToFDS, one iteration: r is what protoToFD returned, st is (File, err)
protosToFDSAdd(st, r) ==
    IF r.err # None THEN [File |-> <<>>, err |-> r.err]
    ELSE [st EXCEPT !.File = Append(@, Val(r.fd))]

\* the loop of protosToFDS from protos[k] on: an error ends it
RECURSIVE protosToFDSFrom(_, _, _)
protosToFDSFrom(st, protos, k) ==
    IF k > Len(protos) \/ st.err # None THEN st
    ELSE protosToFDSFrom(protosToFDSAdd(st, protoToFD(protos[k])), protos, k + 1)

\* mutant: the descriptors lowered so far are returned along with the error
protosToFDSReturnPartial(r) ==
    IF r.err # None THEN [fds |-> Some([File |-> r.File]), err |-> r.err]
    ELSE [fds |-> Some([File |-> r.File]), err |-> None]
\* return fds, nil or nil, err
protosToFDSReturn(r) ==
    IF r.err # None THEN [fds |-> None, err |-> r.err]
    ELSE [fds |-> Some([File |-> r.File]), err |-> None]
protosToFDS(protos) ==
    protosToFDSReturn(protosToFDSFrom([File |-> <<>>, err |-> None], protos, 1))

(* ------------------------------------------------------- the deduplication *)
\* protos is a list of pointers into the objects objs
RECURSIVE dedupFrom(_, _, _, _, _)
dedupFrom(objs, result, seen, protos, k) ==
    IF k > Len(protos) THEN result
    ELSE IF objs[protos[k]].Filename \in seen
         THEN dedupFrom(objs, result, seen, protos, k + 1)
         ELSE dedupFrom(objs, Append(result, protos[k]),
                        seen \cup {objs[protos[k]].Filename}, protos, k + 1)

dedup(objs, protos) == dedupFrom(objs, <<>>, {}, protos, 1)

(* ------------------------------------------------------------------ state *)
VARIABLES
    paths,      \* c.ImportPaths
    Filename,   \* c.Filename
    fsys,       \* what is known of the file system: path -> "?" | "file" | "none"
    disk,       \* content of the streams read so far: path -> None | Some(parse)
    pc,         \* where run is
    stack,      \* activations of readProtos, innermost last
    heap,       \* the *parser.Proto objects parser.Parse allocated, in order
    opened,     \* every handle search returned, in order: handle h is opened[h]
    closed,     \* the handles f.Close() was called on
    parsed,     \* every call of parser.Parse, in order: the logical filename
    stderr,     \* the lines printed to os.Stderr by readProtos
    ret,        \* what the outermost readProtos returned
    protos,     \* what readProtosAndDeps returned
    fds,        \* what protosToFDS returned
    err,        \* the error run returns
    out,        \* what was written to c.out
    call        \* the call of a function checked alone: [fn, its arguments, res]

vars == <<paths, Filename, fsys, disk, pc, stack, heap, opened, closed, parsed,
          stderr, ret, protos, fds, err, out, call>>

Files == Roots \X Names
Streams == Files \cup {Stdin(n) : n \in EntryNames}

\* an activation of readProtos(paths, in, filename): in is the handle read
\* (0 is c.in), src the path behind it, p the pointer parser.Parse returned
\* (an index of heap, 0 before the call), i the index of the loop over
\* p.Entries, f the handle of the import being read, result the pointers
\* collected so far
Frame(in, src, filename) ==
    [in |-> in, src |-> src, filename |-> filename, p |-> 0, i |-> 0,
     f |-> 0, result |-> <<>>]

\* no function is being checked alone
NoCall == [fn |-> "none"]

Top == stack[Len(stack)]
OpenHandles == {h \in 1..Len(opened) : h \notin closed}
\* the objects a list of pointers refers to
Deref(ptrs) == [k \in 1..Len(ptrs) |-> heap[ptrs[k]]]

\* The file system is an input the program never changes.  A path is decided
\* (a file or not) by the first os.Open that probes it, and keeps that answer:
\* FileSystems(fsys) are the sets of openable paths that agree with the answers
\* given so far, ProbedBy the paths one call of search probes.
FileSystems(known) ==
    {fs \in SUBSET Files :
        \A f \in Files : ((known[f] = "file") => (f \in fs))
                            /\ ((known[f] = "none") => (f \notin fs))}
ProbedBy(fs, pths, filename) ==
    {Join(pths[k], filename) : k \in
        {k \in 1..Len(pths) : \A j \in 1..(k - 1) : ~CanOpen(fs, Join(pths[j], filename))}}
Observe(known, fs, probed) ==
    [f \in Files |-> IF f \in probed
                     THEN (IF f \in fs THEN "file" ELSE "none")
                     ELSE known[f]]

Init ==
    /\ paths = <<"r1", "r2">>
    /\ Filename \in EntryNames
    /\ fsys = [f \in Files |-> "?"]
    /\ disk = [s \in Streams |-> None]
    /\ pc = "readProtos"
    /\ stack = <<Frame(0, Stdin(Filename), Filename)>>
    /\ heap = <<>>
    /\ opened = <<>>
    /\ closed = {}
    /\ parsed = <<>>
    /\ stderr = <<>>
    /\ ret = None
    /\ protos = None
    /\ fds = None
    /\ err = None
    /\ out = None
    /\ call = NoCall

(* ---------------------------------------------------------------- actions *)
\* a stream holds the same bytes every time it is read
CanRead(body) == disk[Top.src] = None \/ disk[Top.src] = Some(body)

\* p, err := parser.Parse(in) of the innermost activation succeeds
readProtosParse ==
    /\ pc = "readProtos" /\ stack # <<>> /\ Top.p = 0
    /\ \E body \in ResolveParses :
        /\ body.err = None /\ CanRead(body)
        /\ disk' = [disk EXCEPT ![Top.src] = Some(body)]
        /\ heap' = Append(heap, Val(body.p))
    /\ stack' = [stack EXCEPT ![Len(stack)].p = Len(heap) + 1, ![Len(stack)].i = 1]
    /\ parsed' = Append(parsed, Top.filename)
    /\ UNCHANGED <<call, paths, Filename, fsys, pc, opened, closed, stderr, ret, protos,
                   fds, err, out>>

\* mutant: a file that does not parse is skipped like a missing import
readProtosParseErrSkipped ==
    /\ pc = "readProtos" /\ stack # <<>> /\ Top.p = 0
    /\ \E body \in ResolveParses :
        /\ body.err # None /\ CanRead(body)
        /\ disk' = [disk EXCEPT ![Top.src] = Some(body)]
        /\ stderr' = Append(stderr, Val(body.err))
    /\ parsed' = Append(parsed, Top.filename)
    /\ IF Len(stack) > 1
       THEN /\ stack' = [SubSeq(stack, 1, Len(stack) - 1) EXCEPT
                            ![Len(stack) - 1].i = @ + 1]
            /\ closed' = closed \cup {Top.in}
            /\ UNCHANGED <<pc, ret>>
       ELSE /\ stack' = <<>>
            /\ ret' = Some(<<>>)
            /\ pc' = "readProtosAndDeps"
            /\ UNCHANGED closed
    /\ UNCHANGED <<call, paths, Filename, fsys, heap, opened, protos, fds, err, out>>

\* parser.Parse fails: this activation and each of its callers return nil, err
\* (lines 314-316 and 329-331), and so do readProtosAndDeps and run
readProtosParseErr ==
    /\ pc = "readProtos" /\ stack # <<>> /\ Top.p = 0
    /\ \E body \in ResolveParses :
        /\ body.err # None /\ CanRead(body)
        /\ disk' = [disk EXCEPT ![Top.src] = Some(body)]
        /\ err' = body.err
    /\ parsed' = Append(parsed, Top.filename)
    /\ stack' = <<>>
    /\ pc' = "failed"
    /\ UNCHANGED <<call, paths, Filename, fsys, heap, opened, closed, stderr, ret, protos,
                   fds, out>>

InLoop == pc = "readProtos" /\ stack # <<>> /\ Top.p # 0
            /\ Top.i <= Len(heap[Top.p].Entries)
CurEntry == heap[Top.p].Entries[Top.i]

\* if e.Import == "" { continue }
readProtosSkipEntry ==
    /\ InLoop /\ CurEntry.Import = ""
    /\ stack' = [stack EXCEPT ![Len(stack)].i = @ + 1]
    /\ UNCHANGED <<call, paths, Filename, fsys, disk, pc, heap, opened, closed, parsed,
                   stderr, ret, protos, fds, err, out, call>>

\* mutant: a missing import makes readProtos return the error of search
readProtosNotFoundAborts ==
    /\ InLoop /\ CurEntry.Import # ""
    /\ \E fs \in FileSystems(fsys) :
        LET r == search(fs, paths, CurEntry.Import) IN
        /\ r.err # None
        /\ err' = r.err
        /\ fsys' = Observe(fsys, fs, ProbedBy(fs, paths, CurEntry.Import))
    /\ stack' = <<>>
    /\ pc' = "failed"
    /\ UNCHANGED <<call, paths, Filename, disk, heap, opened, closed, parsed, stderr,
                   ret, protos, fds, out>>

\* search fails: the error is printed and the loop continues
readProtosNotFound ==
    /\ InLoop /\ CurEntry.Import # ""
    /\ \E fs \in FileSystems(fsys) :
        LET r == search(fs, paths, CurEntry.Import) IN
        /\ r.err # None
        /\ stderr' = Append(stderr, Val(r.err))
        /\ fsys' = Observe(fsys, fs, ProbedBy(fs, paths, CurEntry.Import))
    /\ stack' = [stack EXCEPT ![Len(stack)].i = @ + 1]
    /\ UNCHANGED <<call, paths, Filename, disk, pc, heap, opened, closed, parsed, ret,
                   protos, fds, err, out>>

\* search succeeds: readProtos(paths, f, e.Import) is called
readProtosRecurse ==
    /\ InLoop /\ CurEntry.Import # ""
    /\ Len(stack) < MaxDepth
    /\ \E fs \in FileSystems(fsys) :
        LET r == search(fs, paths, CurEntry.Import)
            h == Len(opened) + 1
        IN /\ r.err = None
           /\ opened' = Append(opened, Val(r.f))
           /\ stack' = Append([stack EXCEPT ![Len(stack)].f = h],
                              Frame(h, Val(r.f), CurEntry.Import))
           /\ fsys' = Observe(fsys, fs, ProbedBy(fs, paths, CurEntry.Import))
    /\ UNCHANGED <<call, paths, Filename, disk, pc, heap, closed, parsed, stderr, ret,
                   protos, fds, err, out>>

AtEnd == pc = "readProtos" /\ stack # <<>> /\ Top.p # 0
            /\ Top.i > Len(heap[Top.p].Entries)

\* a nested activation returns (p.Filename = filename; result = append(result,
\* p); return result, nil): the caller closes f and appends s to its result
readProtosReturn ==
    /\ AtEnd /\ Len(stack) > 1
    /\ heap' = [heap EXCEPT ![Top.p].Filename = Top.filename]
    /\ LET c == Len(stack) - 1 IN
        /\ closed' = closed \cup {stack[c].f}
        /\ stack' = [SubSeq(stack, 1, c) EXCEPT
                        ![c].result = @ \o Append(Top.result, Top.p),
                        ![c].i = @ + 1]
    /\ UNCHANGED <<call, paths, Filename, fsys, disk, pc, opened, parsed, stderr, ret,
                   protos, fds, err, out>>

\* the outermost activation returns to readProtosAndDeps
readProtosReturnOuter ==
    /\ AtEnd /\ Len(stack) = 1
    /\ heap' = [heap EXCEPT ![Top.p].Filename = Top.filename]
    /\ ret' = Some(Append(Top.result, Top.p))
    /\ stack' = <<>>
    /\ pc' = "readProtosAndDeps"
    /\ UNCHANGED <<call, paths, Filename, fsys, disk, opened, closed, parsed, stderr,
                   protos, fds, err, out>>

\* the loop of readProtosAndDeps over the protos readProtos returned
readProtosAndDeps ==
    /\ pc = "readProtosAndDeps"
    /\ protos' = Some(dedup(heap, Val(ret)))
    /\ pc' = "protosToFDS"
    /\ UNCHANGED <<call, paths, Filename, fsys, disk, stack, heap, opened, closed, parsed,
                   stderr, ret, fds, err, out>>

\* run: fds, err := protosToFDS(protos)
runProtosToFDS ==
    /\ pc = "protosToFDS"
    /\ LET r == protosToFDS(Deref(Val(protos))) IN
        /\ fds' = r.fds
        /\ err' = r.err
        /\ pc' = IF r.err # None THEN "failed" ELSE "writeFDS"
    /\ UNCHANGED <<call, paths, Filename, fsys, disk, stack, heap, opened, closed, parsed,
                   stderr, ret, protos, out>>

\* run: return writeFDS(c.out, fds, c.Format)
runWriteFDS ==
    /\ pc = "writeFDS"
    /\ out' = fds
    /\ pc' = "done"
    /\ UNCHANGED <<call, paths, Filename, fsys, disk, stack, heap, opened, closed, parsed,
                   stderr, ret, protos, fds, err>>

Next ==
    \/ readProtosParse
    \/ readProtosParseErr
    \/ readProtosSkipEntry
    \/ readProtosNotFound
    \/ readProtosRecurse
    \/ readProtosReturn
    \/ readProtosReturnOuter
    \/ readProtosAndDeps
    \/ runProtosToFDS
    \/ runWriteFDS

Spec == Init /\ [][Next]_vars

(* ------------------------------------------- functions checked on their own *)
\* the pipeline is not running
Idle ==
    /\ paths = <<>> /\ Filename = ""
    /\ fsys = [f \in Files |-> "?"]
    /\ disk = [s \in Streams |-> None]
    /\ pc = "idle" /\ stack = <<>> /\ heap = <<>>
    /\ opened = <<>> /\ closed = {} /\ parsed = <<>> /\ stderr = <<>>
    /\ ret = None /\ protos = None /\ fds = None /\ err = None /\ out = None
pipeline == <<paths, Filename, fsys, disk, pc, stack, heap, opened, closed, parsed,
              stderr, ret, protos, fds, err, out>>

\* search(paths, filename) over every list of roots and every file system
SearchInit ==
    /\ Idle
    /\ call \in {[fn |-> "search", fsys |-> fs, paths |-> ps, filename |-> n,
                  res |-> None] :
                    fs \in SUBSET Files, ps \in SeqUpTo(Roots, MaxRoots), n \in Names}
callSearch ==
    /\ call.fn = "search" /\ call.res = None
    /\ call' = [call EXCEPT !.res = Some(search(call.fsys, call.paths, call.filename))]
    /\ UNCHANGED pipeline
SearchSpec == SearchInit /\ [][callSearch]_vars

\* the files protoToFD is checked on
OptionEntry == [ZeroEntry EXCEPT !.Option = Some([Name |-> "java_package"])]
MessageEntryOf(m) == [ZeroEntry EXCEPT !.Message = Some(m)]
ZeroMessageEntry ==
    [Enum |-> None, Option |-> None, Message |-> None, Oneof |-> None,
     Extend |-> None, Reserved |-> None, Extensions |-> None, Field |-> None]
FieldEntry(f) == [ZeroMessageEntry EXCEPT !.Field = Some(f)]
\* parser.Type: a scalar, or a map (Scalar is then parser.None)
ScalarType(k) == [Scalar |-> k, Map |-> None]
MapTypeOf(k, v) == [Scalar |-> "None", Map |-> Some([Key |-> k, Value |-> ScalarType(v)])]
\* parser.Field: card is "", "optional", "required" or "repeated"
ZeroField ==
    [Optional |-> FALSE, Required |-> FALSE, Repeated |-> FALSE, Group |-> None,
     Direct |-> None]
FieldOf(card, type, name, tag) ==
    [ZeroField EXCEPT !.Optional = (card = "optional"),
                      !.Required = (card = "required"),
                      !.Repeated = (card = "repeated"),
                      !.Direct = Some([Type |-> type, Name |-> name, Tag |-> tag])]
DirectField(scalar, name, tag) == FieldOf("", ScalarType(scalar), name, tag)
\* optional group F = 1 {}: the field is not a direct one
GroupField == [ZeroField EXCEPT !.Optional = TRUE, !.Group = Some([Name |-> "F", Tag |-> 1])]

\* parser.Range as reserved reads it, and parser.Reserved
RangeOf(start, end, max) == [Ident |-> "", Start |-> start, End |-> end, Max |-> max]
IdentOf(name) == [Ident |-> name, Start |-> 0, End |-> None, Max |-> FALSE]
ReservedOf(rs) == [Reserved |-> rs]

\* parser.EnumEntry
ZeroEnumEntry == [Value |-> None, Option |-> None, Reserved |-> None]
EnumValueOf(key, value) == [ZeroEnumEntry EXCEPT !.Value = Some([Key |-> key, Value |-> value])]
EnumReservedOf(rs) == [ZeroEnumEntry EXCEPT !.Reserved = Some(ReservedOf(rs))]
EnumOptionOf(name) == [ZeroEnumEntry EXCEPT !.Option = Some([Name |-> name])]
\* enum E { X = 0; }, enum F { Y = 1; }
EnumE == [Name |-> "E", Values |-> <<EnumValueOf("X", 0)>>]
EnumF == [Name |-> "F", Values |-> <<EnumValueOf("Y", 1)>>]
EnumEntryOf(e) == [ZeroEntry EXCEPT !.Enum = Some(e)]

\* message M { string f = 1; }
ScalarMessage ==
    [Name |-> "M", Entries |-> <<FieldEntry(DirectField("String", <<"f">>, 1))>>]
\* message N { enum E { X = 0; } }
EnumMessage ==
    [Name |-> "N", Entries |-> <<[ZeroMessageEntry EXCEPT !.Enum = Some(EnumE)]>>]
\* message G { optional group F = 1 {} }
GroupMessage == [Name |-> "G", Entries |-> <<FieldEntry(GroupField)>>]
LowerEntries ==
    {SyntaxEntry("proto2"), SyntaxEntry("proto3"), PackageEntry("pkg"),
     PackageEntry("other"), ImportEntry("a.proto"), ImportEntry("b.proto"),
     OptionEntry, ZeroEntry, MessageEntryOf(ScalarMessage), MessageEntryOf(EnumMessage),
     MessageEntryOf(GroupMessage), EnumEntryOf(EnumE), EnumEntryOf(EnumF)}

\* the entries of the messages message is checked on
OneofOf(name, fs) ==
    [ZeroMessageEntry EXCEPT !.Oneof =
        Some([Name |-> name,
              Entries |-> [k \in 1..Len(fs) |-> [Field |-> Some(fs[k]), Option |-> None]]])]
LowerMessageEntries ==
    {FieldEntry(DirectField("String", <<"a">>, 1)),
     FieldEntry(FieldOf("repeated", ScalarType("Int32"), <<"b", "_", "a">>, 2)),
     FieldEntry(FieldOf("required", ScalarType("Bool"), <<"f">>, 1)),
     FieldEntry(FieldOf("optional", ScalarType("String"), <<"b">>, 0)),
     FieldEntry(DirectField("Bytes", <<"f", "_", "b">>, 19000)),
     FieldEntry(FieldOf("", MapTypeOf("String", "Int32"), <<"a", "b">>, 3)),
     FieldEntry(GroupField),
     [ZeroMessageEntry EXCEPT !.Enum = Some(EnumE)],
     [ZeroMessageEntry EXCEPT !.Enum = Some(EnumF)],
     [ZeroMessageEntry EXCEPT !.Reserved = Some(ReservedOf(<<RangeOf(2, None, FALSE)>>))],
     [ZeroMessageEntry EXCEPT !.Option = Some([Name |-> "deprecated"])],
     OneofOf("o", <<DirectField("String", <<"a">>, 4)>>),
     ZeroMessageEntry}

\* the entries of the enums enum is checked on
LowerEnumEntries ==
    {EnumValueOf("X", 0), EnumValueOf("Y", 1), EnumValueOf("Z", 0),
     EnumOptionOf("deprecated"), EnumOptionOf("allow_alias"),
     EnumReservedOf(<<RangeOf(2, None, TRUE)>>),
     EnumReservedOf(<<RangeOf(2, Some(5), FALSE)>>),
     EnumReservedOf(<<RangeOf(7, None, FALSE)>>),
     EnumReservedOf(<<RangeOf(9, None, FALSE), RangeOf(3, Some(4), FALSE)>>),
     EnumReservedOf(<<IdentOf("B"), IdentOf("A")>>),
     ZeroEnumEntry}

\* the characters of the names jsonStr is checked on
LowerChars == {"a", "B", "_"}

\* the files protosToFDS is checked on
LowerProtos ==
    {[Filename |-> n, Entries |-> es] :
        n \in Names,
        es \in {<<>>, <<PackageEntry("pkg")>>, <<ImportEntry("a.proto")>>,
                <<PackageEntry("pkg"), PackageEntry("other")>>}}

\* the calls of the lowering functions, each on every input up to its bound
LowerCalls ==
    {[fn |-> "protoToFD", pp |-> [Filename |-> "main.proto", Entries |-> es],
      res |-> None] : es \in SeqUpTo(LowerEntries, MaxLowerEntries)}
    \cup {[fn |-> "message", pm |-> [Name |-> "M", Entries |-> es], res |-> None] :
            es \in SeqUpTo(LowerMessageEntries, MaxMessageEntries)}
    \cup {[fn |-> "enum", pe |-> [Name |-> "E", Values |-> vs], res |-> None] :
            vs \in SeqUpTo(LowerEnumEntries, MaxEnumEntries)}
    \cup {[fn |-> "jsonStr", s |-> s, res |-> None] :
            s \in SeqUpTo(LowerChars, MaxNameLen)}
    \cup {[fn |-> "protosToFDS", protos |-> ps, res |-> None] :
            ps \in SeqUpTo(LowerProtos, MaxProtos)}

LowerInit ==
    /\ Idle
    /\ call \in LowerCalls
callProtoToFD ==
    /\ call.fn = "protoToFD" /\ call.res = None
    /\ call' = [call EXCEPT !.res = Some(protoToFD(call.pp))]
    /\ UNCHANGED pipeline
callMessage ==
    /\ call.fn = "message" /\ call.res = None
    /\ call' = [call EXCEPT !.res = Some(message(call.pm))]
    /\ UNCHANGED pipeline
callEnum ==
    /\ call.fn = "enum" /\ call.res = None
    /\ call' = [call EXCEPT !.res = Some(enum(call.pe))]
    /\ UNCHANGED pipeline
callJsonStr ==
    /\ call.fn = "jsonStr" /\ call.res = None
    /\ call' = [call EXCEPT !.res = Some(jsonStr(call.s))]
    /\ UNCHANGED pipeline
callProtosToFDS ==
    /\ call.fn = "protosToFDS" /\ call.res = None
    /\ call' = [call EXCEPT !.res = Some(protosToFDS(call.protos))]
    /\ UNCHANGED pipeline
LowerNext ==
    \/ callProtoToFD
    \/ callMessage
    \/ callEnum
    \/ callJsonStr
    \/ callProtosToFDS
LowerSpec == LowerInit /\ [][LowerNext]_vars

(* ------------------------------------------------------------ the claims *)
IsImport(e) == e.Import # ""
\* the import paths of a file, in source order
ImportNames(entries) ==
    LET sel == SelectSeq(entries, IsImport) IN [k \in 1..Len(sel) |-> sel[k].Import]
\* search found the import path under some root
Resolved(n) == \E k \in 1..Len(paths) : fsys[Join(paths[k], n)] = "file"
\* the import entries (stream, index) of the files read that no root satisfies
UnresolvedImports ==
    UNION {{<<s, k>> : k \in {k \in DOMAIN Val(Val(disk[s]).p).Entries :
                                LET e == Val(Val(disk[s]).p).Entries[k]
                                IN IsImport(e) /\ ~Resolved(e.Import)}} :
           s \in {s \in Streams : disk[s] # None /\ Val(disk[s]).err = None}}
ImportPathAt(si) == Val(Val(disk[si[1]]).p).Entries[si[2]].Import
RECURSIVE SumLen(_, _)
\* the number of import entries of the first k objects of heap
SumLen(objs, k) ==
    IF k = 0 THEN 0 ELSE SumLen(objs, k - 1) + Len(ImportNames(objs[k].Entries))

\* C1: import resolution terminates on every input, cyclic imports included.
\* readProtos is deterministic in the file it reads, so an activation that reads
\* a file while an enclosing activation is still reading that file repeats it
\* without end: resolution terminates exactly when no file is read by two
\* activations of the stack at once.
C1_ResolutionTerminates ==
    \A i, j \in 1..Len(stack) : i # j => stack[i].src # stack[j].src

\* C2: when resolution returns, the list of readProtosAndDeps holds every file
\* reached exactly once by logical name, every resolved import before each file
\* that imports it, and the entry file, which is the last element.
C2_PostOrderEntryLast ==
    protos # None =>
        LET ps == Val(protos)
            n == Len(ps)
            name(k) == heap[ps[k]].Filename
        IN /\ \A i, j \in 1..n : i # j => name(i) # name(j)
           /\ {name(k) : k \in 1..n} = {parsed[k] : k \in 1..Len(parsed)}
           /\ \A k \in 1..n : \A e \in 1..Len(heap[ps[k]].Entries) :
                LET imp == heap[ps[k]].Entries[e].Import IN
                (imp # "" /\ Resolved(imp)) => \E j \in 1..(k - 1) : name(j) = imp
           /\ n >= 1 /\ ps[n] = 1 /\ name(n) = Filename

\* C3: during one resolution each logical import path is opened and parsed at
\* most once.
C3_ParsedAtMostOnce ==
    \A i, j \in 1..Len(opened) : i # j => opened[i][2] # opened[j][2]

\* C4: an import no root satisfies does not abort resolution: run never returns
\* the error of search, every import entry of every file parsed has been either
\* opened or reported when readProtos returns, and each descriptor lists all
\* the import paths of its file, the unresolved ones too, in source order.
C4_UnresolvedImportSkipped ==
    /\ err # None => Val(err)[1] # "cannot find on import paths"
    /\ ret # None => Len(opened) + Len(stderr) = SumLen(heap, Len(heap))
    /\ fds # None =>
        \A k \in 1..Len(Val(protos)) :
            Val(fds).File[k].Dependency = ImportNames(heap[Val(protos)[k]].Entries)

\* a run that ended well although an import of the entry file was not found,
\* whose descriptor lists the resolved and the unresolved import
C4_Witness ==
    /\ pc = "done" /\ Len(stderr) = 1 /\ Len(opened) = 1
    /\ LET fd == Val(out).File[Len(Val(out).File)] IN
        /\ fd.Name = Filename
        /\ Len(fd.Dependency) = 2
        /\ fd.Dependency[2] = stderr[1][2]
        /\ fd.Dependency[1] = opened[1][2]

\* C5: exactly one diagnostic line per unresolved import entry (importing
\* file, import path), however many import paths lead to the importing file.
C5_OneLinePerUnresolvedImport ==
    ret # None =>
        \A n \in Names :
            Cardinality({i \in 1..Len(stderr) : stderr[i] = ErrNotFound(n)})
            = Cardinality({si \in UnresolvedImports : ImportPathAt(si) = n})

\* C7: at every point of a resolution at most one import file handle is open.
C7_AtMostOneHandleOpen == Cardinality(OpenHandles) <= 1

\* C8: every handle readProtos got from search is closed when the outermost
\* readProtos has returned, also when it returned an error.
C8_HandlesClosedOnReturn == stack = <<>> => OpenHandles = {}

\* C9: a parse error in the entry file or in an imported file aborts the whole
\* pipeline: run returns that error, readProtos returned no list, nothing is
\* lowered or written, and nothing is opened or parsed afterwards; a run that
\* parsed every file it opened never ends with a parse error.
ParseFailed == \E s \in Streams : disk[s] # None /\ Val(disk[s]).err # None
C9_ParseErrorAborts ==
    /\ ParseFailed =>
        /\ pc = "failed" /\ err = ParseErrOf.err
        /\ ret = None /\ protos = None /\ fds = None /\ out = None
        /\ stack = <<>>
        /\ ~ENABLED Next
    /\ err = ParseErrOf.err => ParseFailed

\* the second import of the entry file was never opened, because the first
\* imported file did not parse
C9_Witness ==
    /\ pc = "failed" /\ err = ParseErrOf.err
    /\ Len(heap) = 1 /\ Len(ImportNames(heap[1].Entries)) = 2
    /\ Len(opened) = 1 /\ Len(parsed) = 2 /\ stderr = <<>>

\* C6: search probes the roots in their configured order and returns the file
\* under the first root that holds it; it returns an error naming the import
\* path exactly when no root holds it.
C6_SearchFirstRoot ==
    (call.fn = "search" /\ call.res # None) =>
        LET r == Val(call.res)
            hits == {k \in 1..Len(call.paths) :
                        Join(call.paths[k], call.filename) \in call.fsys}
        IN /\ (hits = {}) <=> (r.err # None)
           /\ r.err # None => (r.f = None /\ Val(r.err) = ErrNotFound(call.filename))
           /\ hits # {} =>
                \E k \in hits :
                    /\ \A j \in hits : k <= j
                    /\ r.f = Some(Join(call.paths[k], call.filename))
                    /\ r.err = None

\* both roots hold the file and the first configured root, r2, wins
C6_Witness ==
    /\ call.fn = "search" /\ call.res # None
    /\ call.paths = <<"r2", "r1">>
    /\ {<<"r1", call.filename>>, <<"r2", call.filename>>} \subseteq call.fsys
    /\ Val(call.res).f = Some(<<"r2", call.filename>>)

\* C10: protoToFD fails and returns no descriptor for a file with a second
\* syntax entry or a second package entry; with at most one of each it never
\* fails for that reason, and a descriptor it returns carries that syntax and
\* that package.
IsSyntax(e) == e.Syntax # ""
IsPackage(e) == e.Syntax = "" /\ e.Package # ""
C10_SecondSyntaxOrPackageFatal ==
    (call.fn = "protoToFD" /\ call.res # None) =>
        LET r == Val(call.res)
            syn == SelectSeq(call.pp.Entries, IsSyntax)
            pkg == SelectSeq(call.pp.Entries, IsPackage)
        IN /\ (Len(syn) >= 2 \/ Len(pkg) >= 2) => (r.err # None /\ r.fd = None)
           /\ (Len(syn) <= 1 /\ Len(pkg) <= 1) =>
                /\ r.err # Some(Err("found second syntax entries"))
                /\ r.err # Some(Err("found second Package entries"))
                /\ r.err = None =>
                    /\ Val(r.fd).Syntax =
                        (IF Len(syn) = 1 THEN Some(syn[1].Syntax) ELSE None)
                    /\ Val(r.fd).Package =
                        (IF Len(pkg) = 1 THEN Some(pkg[1].Package) ELSE None)

\* syntax, package, syntax: the second syntax entry is refused
C10_Witness ==
    /\ call.fn = "protoToFD" /\ call.res # None
    /\ Len(call.pp.Entries) = 3
    /\ IsSyntax(call.pp.Entries[1]) /\ IsPackage(call.pp.Entries[2])
    /\ IsSyntax(call.pp.Entries[3])
    /\ Val(call.res) = [fd |-> None, err |-> Some(Err("found second syntax entries"))]

NamesOf(xs) == [k \in 1..Len(xs) |-> xs[k].Name]
HasMessage(e) == e.Message # None
HasEnum(e) == e.Enum # None
HasField(e) == e.Field # None
HasValue(e) == e.Value # None
HasReserved(e) == e.Reserved # None
IsIdent(r) == r.Ident # ""
IsRange(r) == r.Ident = ""
\* the ranges of the reserved statements of an enum, in source order
RECURSIVE ReservedOfEnum(_, _)
ReservedOfEnum(values, k) ==
    IF k > Len(values) THEN <<>>
    ELSE (IF HasReserved(values[k]) THEN Val(values[k].Reserved).Reserved ELSE <<>>)
            \o ReservedOfEnum(values, k + 1)

\* C12: in every container the lowerer emits, the entries are in the order of
\* the AST entries they were lowered from: the files of a set; dependency,
\* message_type and enum_type of a file; field and enum_type of a message;
\* value, reserved_range and reserved_name of an enum.
C12_SourceOrder ==
    (/\ call.fn \in {"protosToFDS", "protoToFD", "message", "enum"}
     /\ call.res # None /\ Val(call.res).err = None) =>
        LET r == Val(call.res) IN
        /\ (call.fn = "protosToFDS") =>
            NamesOf(Val(r.fds).File) =
                [k \in 1..Len(call.protos) |-> call.protos[k].Filename]
        /\ (call.fn = "protoToFD") =>
            LET ms == SelectSeq(call.pp.Entries, HasMessage)
                es == SelectSeq(call.pp.Entries, HasEnum)
            IN /\ Val(r.fd).Dependency = ImportNames(call.pp.Entries)
               /\ NamesOf(Val(r.fd).MessageType) =
                    [k \in 1..Len(ms) |-> Val(ms[k].Message).Name]
               /\ NamesOf(Val(r.fd).EnumType) =
                    [k \in 1..Len(es) |-> Val(es[k].Enum).Name]
        /\ (call.fn = "message") =>
            LET fs == SelectSeq(call.pm.Entries, HasField)
                es == SelectSeq(call.pm.Entries, HasEnum)
            IN /\ NamesOf(Val(r.dp).Field) =
                    [k \in 1..Len(fs) |-> Val(Val(fs[k].Field).Direct).Name]
               /\ NamesOf(Val(r.dp).EnumType) =
                    [k \in 1..Len(es) |-> Val(es[k].Enum).Name]
        /\ (call.fn = "enum") =>
            LET vs == SelectSeq(call.pe.Values, HasValue)
                rs == ReservedOfEnum(call.pe.Values, 1)
                rg == SelectSeq(rs, IsRange)
                id == SelectSeq(rs, IsIdent)
            IN /\ NamesOf(Val(r.e).Value) = [k \in 1..Len(vs) |-> Val(vs[k].Value).Key]
               /\ [k \in 1..Len(Val(r.e).ReservedRange) |->
                        Val(r.e).ReservedRange[k].Start]
                    = [k \in 1..Len(rg) |-> rg[k].Start]
               /\ Val(r.e).ReservedName = [k \in 1..Len(id) |-> id[k].Ident]

\* message M, enum E, message N at top level: message_type is M, N
C12_Witness ==
    /\ call.fn = "protoToFD" /\ call.res # None /\ Val(call.res).err = None
    /\ call.pp.Entries = <<MessageEntryOf(ScalarMessage), EnumEntryOf(EnumE),
                           MessageEntryOf(EnumMessage)>>
    /\ NamesOf(Val(Val(call.res).fd).MessageType) = <<"M", "N">>

\* the direct fields declared at the top of a message, in source order
DirectFields(entries) ==
    LET fs == SelectSeq(entries, HasField) IN [k \in 1..Len(fs) |-> Val(fs[k].Field)]
LabelOf(pf) ==
    IF pf.Repeated THEN "LABEL_REPEATED"
    ELSE IF pf.Required THEN "LABEL_REQUIRED" ELSE "LABEL_OPTIONAL"

\* C13: the label of a lowered field is REPEATED for a field declared repeated,
\* REQUIRED for one declared required, and OPTIONAL for one declared optional
\* or with no cardinality.
C13_LabelFollowsCardinality ==
    (call.fn = "message" /\ call.res # None /\ Val(call.res).err = None) =>
        LET fs == DirectFields(call.pm.Entries)
            got == Val(Val(call.res).dp).Field
        IN \A k \in 1..Len(got) : got[k].Label = LabelOf(fs[k])

\* the last number a reserved range covers
RangeEnd(r) == IF r.Max THEN MaxInt32 ELSE IF r.End # None THEN Val(r.End) ELSE r.Start
\* tag lies in a reserved range the message declares
ReservedTag(entries, tag) ==
    \E k \in 1..Len(entries) :
        /\ HasReserved(entries[k])
        /\ \E j \in 1..Len(Val(entries[k].Reserved).Reserved) :
            LET r == Val(entries[k].Reserved).Reserved[j] IN
            IsRange(r) /\ r.Start <= tag /\ tag <= RangeEnd(r)
BadTag(entries, tag) ==
    tag <= 0 \/ (19000 <= tag /\ tag <= 19999) \/ ReservedTag(entries, tag)

\* C14: lowering fails when the tag of a field is not positive, lies in
\* 19000..19999, or lies in a reserved range of the enclosing message.
C14_BadTagFatal ==
    (call.fn = "message" /\ call.res # None) =>
        LET fs == DirectFields(call.pm.Entries) IN
        (\E k \in 1..Len(fs) :
            fs[k].Direct # None /\ BadTag(call.pm.Entries, Val(fs[k].Direct).Tag))
        => (Val(call.res).err # None /\ Val(call.res).dp = None)

Distinct(ns) == \A i, j \in 1..Len(ns) : (i # j) => (ns[i] # ns[j])
AllowAlias(values) ==
    \E k \in 1..Len(values) :
        values[k].Option # None /\ Val(values[k].Option).Name = "allow_alias"

\* C15: lowering fails when two fields of a message carry the same tag, and
\* when two values of an enum carry the same number while allow_alias is not
\* set; a lowered message has pairwise distinct field numbers.
C15_DuplicateNumbersFatal ==
    /\ (call.fn = "message" /\ call.res # None /\ Val(call.res).err = None) =>
        LET got == Val(Val(call.res).dp).Field IN
        Distinct([k \in 1..Len(got) |-> got[k].Number])
    /\ (call.fn = "enum" /\ call.res # None /\ Val(call.res).err = None) =>
        LET got == Val(Val(call.res).e).Value IN
        AllowAlias(call.pe.Values) \/ Distinct([k \in 1..Len(got) |-> got[k].Number])

IsMapField(e) ==
    /\ e.Field # None /\ Val(e.Field).Direct # None
    /\ Val(Val(e.Field).Direct).Type.Map # None

\* C16: a field map<K,V> name = N of a message is lowered, without error, to
\* one field name at tag N with label REPEATED and type MESSAGE (and the
\* nested entry message it refers to).
C16_MapFieldLowered ==
    (call.fn = "message" /\ call.res # None /\ Len(call.pm.Entries) = 1
     /\ IsMapField(call.pm.Entries[1])) =>
        LET d == Val(Val(call.pm.Entries[1].Field).Direct) IN
        /\ Val(call.res).err = None
        /\ Len(Val(Val(call.res).dp).Field) = 1
        /\ Val(Val(call.res).dp).Field[1].Name = d.Name
        /\ Val(Val(call.res).dp).Field[1].Number = d.Tag
        /\ Val(Val(call.res).dp).Field[1].Label = "LABEL_REPEATED"
        /\ Val(Val(call.res).dp).Field[1].Type = "TYPE_MESSAGE"

\* the reserved ranges (not names) of an enum, in source order
RangesOfEnum(values) == SelectSeq(ReservedOfEnum(values, 1), IsRange)

\* C17: an enum reserved range written S to max is emitted with start S and
\* end 2^31 - 1, one written S to E with start S and end E.
C17_ReservedMaxAndEnd ==
    (call.fn = "enum" /\ call.res # None /\ Val(call.res).err = None) =>
        LET rg == RangesOfEnum(call.pe.Values)
            got == Val(Val(call.res).e).ReservedRange
        IN /\ Len(got) = Len(rg)
           /\ \A k \in 1..Len(rg) :
                /\ rg[k].Max => got[k] = [Start |-> rg[k].Start, End |-> 2147483647]
                /\ (~rg[k].Max /\ rg[k].End # None) =>
                        got[k] = [Start |-> rg[k].Start, End |-> Val(rg[k].End)]

\* reserved 2 to 5; reserved 2 to max;
C17_Witness ==
    /\ call.fn = "enum" /\ call.res # None
    /\ call.pe.Values = <<EnumReservedOf(<<RangeOf(2, Some(5), FALSE)>>),
                          EnumReservedOf(<<RangeOf(2, None, TRUE)>>)>>
    /\ Val(Val(call.res).e).ReservedRange =
            <<[Start |-> 2, End |-> 5], [Start |-> 2, End |-> 2147483647]>>

\* C18: an enum reserved range written as a single number, with no upper
\* bound, is emitted with end 2^31 - 1.
C18_ReservedSingleNumber ==
    (call.fn = "enum" /\ call.res # None /\ Val(call.res).err = None) =>
        LET rg == RangesOfEnum(call.pe.Values)
            got == Val(Val(call.res).e).ReservedRange
        IN \A k \in 1..Len(rg) :
            (~rg[k].Max /\ rg[k].End = None) => got[k].End = 2147483647

\* the positions of s that hold a character other than "_"
Letters(s) == SelectSeq([k \in 1..Len(s) |-> k], LAMBDA k : s[k] # "_")
\* lower camel case: a character that follows a "_" is in upper case, every
\* other one in lower case, and the "_" are dropped
LowerCamel(s) ==
    [j \in 1..Len(Letters(s)) |->
        IF Letters(s)[j] > 1 /\ s[Letters(s)[j] - 1] = "_"
        THEN Upper(s[Letters(s)[j]]) ELSE Lower(s[Letters(s)[j]])]

\* C19: the json_name of a lowered field is a function of the source name
\* alone: the name split on "_", the first segment in lower case, each later
\* one in lower case with its first letter capitalised, all concatenated.
C19_JsonNameLowerCamel ==
    /\ (call.fn = "jsonStr" /\ call.res # None) => Val(call.res) = LowerCamel(call.s)
    /\ (call.fn = "message" /\ call.res # None /\ Val(call.res).err = None) =>
        LET got == Val(Val(call.res).dp).Field IN
        \A k \in 1..Len(got) : got[k].JsonName = LowerCamel(got[k].Name)

\* jsonStr("B_aB") = "bAb"
C19_Witness ==
    /\ call.fn = "jsonStr" /\ call.res # None
    /\ call.s = <<"B", "_", "a", "B">>
    /\ Val(call.res) = <<"b", "A", "b">>

HasOneof(e) == e.Oneof # None
\* the fields a message declares: at its top and directly inside its oneofs
RECURSIVE DeclaredFields(_, _)
DeclaredFields(entries, k) ==
    IF k > Len(entries) THEN 0
    ELSE (IF HasField(entries[k]) THEN 1
          ELSE IF HasOneof(entries[k]) THEN Len(Val(entries[k].Oneof).Entries)
          ELSE 0) + DeclaredFields(entries, k + 1)

\* C20: every field declared in a message, those directly inside a oneof
\* included, yields exactly one entry of field[]: a lowered message has as
\* many fields as the message declares.
C20_OneEntryPerField ==
    (call.fn = "message" /\ call.res # None /\ Val(call.res).err = None) =>
        Len(Val(Val(call.res).dp).Field) = DeclaredFields(call.pm.Entries, 1)

(* ------------------------------------------------ the parser (parser.go) *)
\* the characters of a string NewFQIdentFromString is called on
MaxIdentLen == 4
IdentChars == {"a", "b", "."}

\* strings.Split(s, "."): cur is the piece being read
RECURSIVE SplitDotFrom(_, _, _, _)
SplitDotFrom(s, k, cur, acc) ==
    IF k > Len(s) THEN Append(acc, cur)
    ELSE IF s[k] = "." THEN SplitDotFrom(s, k + 1, <<>>, Append(acc, cur))
         ELSE SplitDotFrom(s, k + 1, Append(cur, s[k]), acc)
SplitDot(s) == SplitDotFrom(s, 1, <<>>, <<>>)
\* strings.Join(parts, ".")
RECURSIVE JoinDotFrom(_, _)
JoinDotFrom(parts, k) ==
    IF k > Len(parts) THEN <<>>
    ELSE IF k = Len(parts) THEN parts[k]
         ELSE parts[k] \o <<".">> \o JoinDotFrom(parts, k + 1)
JoinDot(parts) == JoinDotFrom(parts, 1)

\* parser.FQIdent
FQIdentOf(fq, parts) == [FullyQualified |-> fq, Parts |-> parts]
\* NewFQIdentFromString(ident): nil (None) or a pointer to an FQIdent
NewFQIdentFromString(ident) ==
    LET parts == SplitDot(ident) IN
    IF Len(parts) = 0 THEN None
    ELSE IF parts[1] = <<>> THEN Some(FQIdentOf(TRUE, SubSeq(parts, 2, Len(parts))))
         ELSE Some(FQIdentOf(FALSE, parts))
\* (*FQIdent).String
FQIdentString(fqIdent) ==
    (IF fqIdent.FullyQualified THEN <<".">> ELSE <<>>) \o JoinDot(fqIdent.Parts)

(* ---- the token stream.  The lexer (lex, unquote) turns the source into
   tokens: an identifier or keyword is an Ident token, a quoted literal a
   String token whose value is its decoded content, an unsigned integer
   literal an Int token, and each punctuation character, the sign of a
   number included, a token of its own; white space and comments are
   dropped. *)
Tok(k, v) == [k |-> k, v |-> v]
IdentTok(v) == Tok("Ident", v)
StringTok(v) == Tok("String", v)
IntTok(v) == Tok("Int", v)
SymTok(v) == Tok("Sym", v)
EOF == Tok("EOF", "")
\* ctx.Peek: the token at position i, EOF past the end
At(toks, i) == IF i <= Len(toks) THEN toks[i] ELSE EOF
\* a literal of the grammar matches a token by its value
Lit(toks, i, s) == At(toks, i).v = s /\ At(toks, i).k # "EOF"
\* a typed capture (@Ident, @String, @Int) matches a token by its kind
Is(toks, i, k) == At(toks, i).k = k

\* participle.UseLookahead(2)
Lookahead == 2
\* the outcome of a node: on success the value and the next position, on
\* failure the position the branch had reached
Ok(pos, val) == [ok |-> TRUE, pos |-> pos, val |-> Some(val)]
Fail(pos) == [ok |-> FALSE, pos |-> pos, val |-> None]
\* a branch that failed more than Lookahead tokens after position i is final
Committed(r, i) == ~r.ok /\ r.pos > i + Lookahead
\* ordered choice: the first alternative that matches, or whose failure is
\* final; a branch that fails otherwise is dropped with the tokens it read, so
\* a choice with no match fails where it started
OrElse(r, i, next) == IF r.ok \/ Committed(r, i) THEN r ELSE next

\* FQIdent.Parts: @Ident ( "." @Ident )*
RECURSIVE fqIdentParts(_, _, _)
fqIdentParts(toks, i, parts) ==
    IF Lit(toks, i, ".") /\ Is(toks, i + 1, "Ident")
    THEN fqIdentParts(toks, i + 2, Append(parts, At(toks, i + 1).v))
    ELSE Ok(i, parts)
fqIdentReturn(fq, r) == Ok(r.pos, FQIdentOf(fq, Val(r.val)))
\* mutant: the leading dot is matched but not captured
fqIdentDropsDot(toks, i) ==
    IF Lit(toks, i, ".")
    THEN IF Is(toks, i + 1, "Ident")
         THEN fqIdentReturn(FALSE, fqIdentParts(toks, i + 2, <<At(toks, i + 1).v>>))
         ELSE Fail(i + 1)
    ELSE IF Is(toks, i, "Ident")
         THEN fqIdentReturn(FALSE, fqIdentParts(toks, i + 1, <<At(toks, i).v>>))
         ELSE Fail(i)
\* FQIdent: ( @"." )? @Ident ( "." @Ident )*
fqIdent(toks, i) ==
    IF Lit(toks, i, ".")
    THEN IF Is(toks, i + 1, "Ident")
         THEN fqIdentReturn(TRUE, fqIdentParts(toks, i + 2, <<At(toks, i + 1).v>>))
         ELSE Fail(i + 1)
    ELSE IF Is(toks, i, "Ident")
         THEN fqIdentReturn(FALSE, fqIdentParts(toks, i + 1, <<At(toks, i).v>>))
         ELSE Fail(i)

\* parser.OptionName
OptionNameOf(name, ext) == [Name |-> name, Extension |-> ext]
optionNameExtension(toks, r) ==
    IF ~r.ok THEN r
    ELSE IF Lit(toks, r.pos, ")") THEN Ok(r.pos + 1, OptionNameOf("", r.val))
         ELSE Fail(r.pos)
\* OptionName: @Ident | "(" @@ ")"
optionName(toks, i) ==
    IF Is(toks, i, "Ident") THEN Ok(i + 1, OptionNameOf(At(toks, i).v, None))
    ELSE IF Lit(toks, i, "(")
         THEN OrElse(optionNameExtension(toks, fqIdent(toks, i + 1)), i, Fail(i))
         ELSE Fail(i)

\* the text of a one-digit Int token as a number
Digits == <<"0", "1", "2", "3", "4", "5", "6", "7", "8", "9">>
Atoi(v) == CHOOSE n \in 0..9 : Digits[n + 1] = v

\* parser.Value
ZeroValue == [String |-> None, Number |-> None, Bool |-> None, Reference |-> None]
\* mutant: every further literal replaces the value
RECURSIVE valueStringsKeepsLast(_, _, _)
valueStringsKeepsLast(toks, i, s) ==
    IF Is(toks, i, "String") THEN valueStringsKeepsLast(toks, i + 1, At(toks, i).v)
    ELSE Ok(i, [ZeroValue EXCEPT !.String = Some(s)])
\* @String+ into one string: every captured token is appended to it
RECURSIVE valueStrings(_, _, _)
valueStrings(toks, i, s) ==
    IF Is(toks, i, "String") THEN valueStrings(toks, i + 1, s \o At(toks, i).v)
    ELSE Ok(i, [ZeroValue EXCEPT !.String = Some(s)])
valueString(toks, i) ==
    IF Is(toks, i, "String") THEN valueStrings(toks, i + 1, At(toks, i).v)
    ELSE Fail(i)
\* (@Float | @Int): the token's text, parsed as a number
valueNumberAt(toks, j) ==
    IF Is(toks, j, "Int")
    THEN Ok(j + 1, [ZeroValue EXCEPT !.Number = Some(Atoi(At(toks, j).v))])
    ELSE Fail(j)
\* ("-" | "+")? (@Float | @Int): the sign is matched, not captured
valueNumber(toks, i) ==
    IF Lit(toks, i, "-") \/ Lit(toks, i, "+") THEN valueNumberAt(toks, i + 1)
    ELSE valueNumberAt(toks, i)
\* @("true"|"false") and Boolean.Capture
valueBool(toks, i) ==
    IF Lit(toks, i, "true") \/ Lit(toks, i, "false")
    THEN Ok(i + 1, [ZeroValue EXCEPT !.Bool = Some(At(toks, i).v = "true")])
    ELSE Fail(i)
valueReference(r) ==
    IF r.ok THEN Ok(r.pos, [ZeroValue EXCEPT !.Reference = r.val]) ELSE r
\* Value: the alternatives in the order of the struct.  ProtoText and Array
\* start with "{" and "[", which the values parsed here do not contain.
value(toks, i) ==
    OrElse(valueString(toks, i), i,
        OrElse(valueNumber(toks, i), i,
            OrElse(valueBool(toks, i), i,
                OrElse(valueReference(fqIdent(toks, i)), i, Fail(i)))))

\* parser.Option: ( "." @@ )* after the first name
RECURSIVE optionNames(_, _, _)
RECURSIVE optionNamesNext(_, _, _, _)
optionNames(toks, i, names) ==
    IF Lit(toks, i, ".") THEN optionNamesNext(toks, i, names, optionName(toks, i + 1))
    ELSE Ok(i, names)
optionNamesNext(toks, i, names, r) ==
    IF r.ok THEN optionNames(toks, r.pos, Append(names, Val(r.val)))
    ELSE IF Committed(r, i) THEN r ELSE Ok(i, names)
optionReturn(names, rv) ==
    IF rv.ok THEN Ok(rv.pos, [Name |-> names, Value |-> rv.val]) ELSE rv
optionEquals(toks, rn) ==
    IF ~rn.ok THEN rn
    ELSE IF Lit(toks, rn.pos, "=")
         THEN optionReturn(Val(rn.val), value(toks, rn.pos + 1))
         ELSE Fail(rn.pos)
optionRest(toks, r) ==
    IF ~r.ok THEN r ELSE optionEquals(toks, optionNames(toks, r.pos, <<Val(r.val)>>))
\* Option: @@ ( "." @@ )* "=" @@
option(toks, i) == optionRest(toks, optionName(toks, i))

\* parser.Import
ImportOf(public, name) == [Public |-> public, Name |-> name]
importName(toks, j, public) ==
    IF Is(toks, j, "String")
    THEN IF Lit(toks, j + 1, ";") THEN Ok(j + 2, ImportOf(public, At(toks, j).v))
         ELSE Fail(j + 1)
    ELSE Fail(j)
\* Import: "import" ( @"public" )? @String ";"
parseImport(toks, i) ==
    IF ~Lit(toks, i, "import") THEN Fail(i)
    ELSE IF Lit(toks, i + 1, "public") THEN importName(toks, i + 2, TRUE)
         ELSE importName(toks, i + 1, FALSE)

\* parser.Type with a Reference, parser.Direct, parser.Field
TypeOf(ref) == [Reference |-> ref]
DirectOf(type, name, tag) == [Type |-> type, Name |-> name, Tag |-> tag]
\* Type: Scalar | Map | Reference.  A scalar is one of the scalar type names
\* and a map starts with "map"; the entries parsed here name neither.
parseType(r) == IF r.ok THEN Ok(r.pos, TypeOf(r.val)) ELSE r
\* Direct ";": @@ @Ident "=" @Int ";".  The options between "[" and "]" are
\* optional; the entries parsed here have none.
directRest(toks, r) ==
    IF ~r.ok THEN r
    ELSE IF ~Is(toks, r.pos, "Ident") THEN Fail(r.pos)
    ELSE IF ~Lit(toks, r.pos + 1, "=") THEN Fail(r.pos + 1)
    ELSE IF ~Is(toks, r.pos + 2, "Int") THEN Fail(r.pos + 2)
    ELSE IF ~Lit(toks, r.pos + 3, ";") THEN Fail(r.pos + 3)
    ELSE Ok(r.pos + 4, DirectOf(Val(r.val), At(toks, r.pos).v, Atoi(At(toks, r.pos + 2).v)))
parseDirect(toks, i) == directRest(toks, parseType(fqIdent(toks, i)))
\* Field: ( @"optional" | @"required" | @"repeated" )? ( Group | Direct ";" ).
\* A group starts with "group".
parseFieldReturn(card, r) ==
    IF r.ok THEN Ok(r.pos, [Optional |-> card = "optional", Required |-> card = "required",
                            Repeated |-> card = "repeated", Direct |-> r.val])
    ELSE r
parseFieldAt(toks, j, card) ==
    IF Lit(toks, j, "group") THEN Fail(j)
    ELSE parseFieldReturn(card, OrElse(parseDirect(toks, j), j, Fail(j)))
parseField(toks, i) ==
    IF Lit(toks, i, "optional") \/ Lit(toks, i, "required") \/ Lit(toks, i, "repeated")
    THEN parseFieldAt(toks, i + 1, At(toks, i).v)
    ELSE parseFieldAt(toks, i, "")

\* parser.MessageEntry with its Option, Field and Empty branches
ZeroMessageEntryNode == [Option |-> None, Field |-> None, Empty |-> FALSE]
\* "option" @@ ";"
entryOptionEnd(toks, r) ==
    IF ~r.ok THEN r
    ELSE IF Lit(toks, r.pos, ";")
         THEN Ok(r.pos + 1, [ZeroMessageEntryNode EXCEPT !.Option = r.val])
         ELSE Fail(r.pos)
entryOption(toks, i) ==
    IF Lit(toks, i, "option") THEN entryOptionEnd(toks, option(toks, i + 1)) ELSE Fail(i)
entryField(r) ==
    IF r.ok THEN Ok(r.pos, [ZeroMessageEntryNode EXCEPT !.Field = r.val]) ELSE r
entryEmpty(toks, i) ==
    IF Lit(toks, i, ";") THEN Ok(i + 1, [ZeroMessageEntryNode EXCEPT !.Empty = TRUE])
    ELSE Fail(i)
\* mutant: Field is tried before Option
parseMessageEntryFieldFirst(toks, i) ==
    OrElse(entryField(parseField(toks, i)), i,
        OrElse(entryOption(toks, i), i,
            OrElse(entryEmpty(toks, i), i, Fail(i))))
\* MessageEntry: the alternatives in the order of the struct.  Enum, Message,
\* Oneof, Extend, Reserved and Extensions start with their keyword, which the
\* entries parsed here do not contain.
parseMessageEntry(toks, i) ==
    OrElse(entryOption(toks, i), i,
        OrElse(entryField(parseField(toks, i)), i,
            OrElse(entryEmpty(toks, i), i, Fail(i))))

(* ---- the source texts the parser is checked on, and their tokens *)
\* most string literals in one option value
MaxStrings == 3
\* most dot-separated parts in one option name
MaxOptionParts == 3
\* the decoded contents of the string literals
StringLits == {"", "1", "2"}
\* an option value as written: adjacent string literals, a number with an
\* optional sign, true or false, or a reference
ValueSources ==
    {[kind |-> "strings", lits |-> ls] : ls \in SeqUpTo(StringLits, MaxStrings) \ {<<>>}}
    \cup {[kind |-> "number", sign |-> s, digit |-> d] :
            s \in {"", "-", "+"}, d \in {"0", "1", "7"}}
    \cup {[kind |-> "word", ids |-> w] :
            w \in {<<"true">>, <<"false">>, <<"a">>, <<"a", "b">>}}
\* a.b.c
RECURSIVE lexIdents(_, _)
lexIdents(ids, k) ==
    IF k > Len(ids) THEN <<>>
    ELSE (IF k > 1 THEN <<SymTok(".")>> ELSE <<>>) \o <<IdentTok(ids[k])>>
            \o lexIdents(ids, k + 1)
lexValue(v) ==
    IF v.kind = "strings" THEN [k \in 1..Len(v.lits) |-> StringTok(v.lits[k])]
    ELSE IF v.kind = "number"
         THEN (IF v.sign = "" THEN <<>> ELSE <<SymTok(v.sign)>>) \o <<IntTok(v.digit)>>
         ELSE lexIdents(v.ids, 1)
\* a part of an option name as written: foo, (a.b) or (.a.b)
PartSources ==
    {[ext |-> FALSE, fq |-> FALSE, ids |-> <<n>>] : n \in {"foo", "bar"}}
    \cup {[ext |-> TRUE, fq |-> b, ids |-> c] : b \in BOOLEAN, c \in {<<"a">>, <<"a", "b">>}}
lexPart(p) ==
    IF p.ext
    THEN <<SymTok("(")>> \o (IF p.fq THEN <<SymTok(".")>> ELSE <<>>)
            \o lexIdents(p.ids, 1) \o <<SymTok(")")>>
    ELSE lexIdents(p.ids, 1)
RECURSIVE lexOptionName(_, _)
lexOptionName(parts, k) ==
    IF k > Len(parts) THEN <<>>
    ELSE (IF k > 1 THEN <<SymTok(".")>> ELSE <<>>) \o lexPart(parts[k])
            \o lexOptionName(parts, k + 1)
\* the values options are written with
OptionValues ==
    {[kind |-> "strings", lits |-> <<"1", "2">>],
     [kind |-> "number", sign |-> "", digit |-> "1"]}
\* name = value ;
lexOption(parts, v) ==
    lexOptionName(parts, 1) \o <<SymTok("=")>> \o lexValue(v) \o <<SymTok(";")>>
\* an import statement as written: the modifier, the quote character and
\* the path
ImportSources ==
    {[mod |-> m, quote |-> q, path |-> f] :
        m \in {"", "public", "weak"}, q \in {"'", "\""}, f \in {"p", "a/b.proto"}}
\* import [public | weak] 'path' ;  A literal in either quote is a String
\* token with the characters between the quotes.
lexImport(src) ==
    <<IdentTok("import")>> \o (IF src.mod = "" THEN <<>> ELSE <<IdentTok(src.mod)>>)
        \o <<StringTok(src.path), SymTok(";")>>
\* most tokens in one message entry
MaxEntryToks == 5
\* the tokens message entries are written with
EntryToks ==
    {IdentTok("option"), IdentTok("foo"), SymTok("="), IntTok("1"), SymTok(";"),
     SymTok(".")}

(* ---- the parser, one node at a time *)
ParserCalls ==
    {[fn |-> "NewFQIdentFromString", ident |-> s, res |-> None] :
        s \in SeqUpTo(IdentChars, MaxIdentLen)}
    \cup {[fn |-> "Value", src |-> v, toks |-> lexValue(v) \o <<SymTok(";")>>,
           res |-> None] : v \in ValueSources}
    \cup {[fn |-> "Option", src |-> ps, value |-> v, toks |-> lexOption(ps, v),
           res |-> None] :
            ps \in SeqUpTo(PartSources, MaxOptionParts) \ {<<>>}, v \in OptionValues}
    \cup {[fn |-> "Import", src |-> i, toks |-> lexImport(i), res |-> None] :
            i \in ImportSources}
    \cup {[fn |-> "MessageEntry", toks |-> ts, res |-> None] :
            ts \in SeqUpTo(EntryToks, MaxEntryToks)}
ParserInit ==
    /\ Idle
    /\ call \in ParserCalls
callNewFQIdentFromString ==
    /\ call.fn = "NewFQIdentFromString" /\ call.res = None
    /\ call' = [call EXCEPT !.res = Some(NewFQIdentFromString(call.ident))]
    /\ UNCHANGED pipeline
callValue ==
    /\ call.fn = "Value" /\ call.res = None
    /\ call' = [call EXCEPT !.res = Some(value(call.toks, 1))]
    /\ UNCHANGED pipeline
callOption ==
    /\ call.fn = "Option" /\ call.res = None
    /\ call' = [call EXCEPT !.res = Some(option(call.toks, 1))]
    /\ UNCHANGED pipeline
callImport ==
    /\ call.fn = "Import" /\ call.res = None
    /\ call' = [call EXCEPT !.res = Some(parseImport(call.toks, 1))]
    /\ UNCHANGED pipeline
callMessageEntry ==
    /\ call.fn = "MessageEntry" /\ call.res = None
    /\ call' = [call EXCEPT !.res = Some(parseMessageEntry(call.toks, 1))]
    /\ UNCHANGED pipeline
ParserNext ==
    \/ callNewFQIdentFromString
    \/ callValue
    \/ callOption
    \/ callImport
    \/ callMessageEntry
ParserSpec == ParserInit /\ [][ParserNext]_vars

\* the concatenation of the strings of a list, in order
RECURSIVE Concat(_)
Concat(ls) ==
    IF ls = <<>> THEN "" ELSE Concat(SubSeq(ls, 1, Len(ls) - 1)) \o ls[Len(ls)]

\* C21: an option value written as one or more adjacent string literals
\* parses to a single string Value, the concatenation of the literals'
\* decoded contents in source order, whatever their number.
C21_StringsConcatenated ==
    (call.fn = "Value" /\ call.src.kind = "strings" /\ call.res # None) =>
        /\ Val(call.res).ok
        /\ Val(call.res).pos = Len(call.src.lits) + 1
        /\ Val(Val(call.res).val) =
                [ZeroValue EXCEPT !.String = Some(Concat(call.src.lits))]

\* "1" "2" is the string 12
C21_Witness ==
    /\ call.fn = "Value" /\ call.res # None
    /\ call.src = [kind |-> "strings", lits |-> <<"1", "2">>]
    /\ Val(Val(call.res).val).String = Some("12")

\* the OptionName a part of an option name is written as
PartName(p) ==
    IF p.ext THEN OptionNameOf("", Some(FQIdentOf(p.fq, p.ids)))
    ELSE OptionNameOf(p.ids[1], None)

\* C22: the name of a parsed option is the sequence of its dot-separated
\* parts in source order; a part is a plain identifier (Name) or a
\* parenthesised extension (Extension), never both; an extension is
\* FullyQualified exactly when written with a leading dot, and its Parts are
\* its dotted components in order.
C22_OptionNameParts ==
    (call.fn = "Option" /\ call.res # None) =>
        /\ Val(call.res).ok
        /\ Val(call.res).pos = Len(call.toks)
        /\ Val(Val(call.res).val).Name = [k \in 1..Len(call.src) |-> PartName(call.src[k])]
        /\ \A k \in 1..Len(call.src) :
            LET n == Val(Val(call.res).val).Name[k] IN
            (n.Name = "") # (n.Extension = None)

\* (.a.b).foo.(a) = 1;
C22_Witness ==
    /\ call.fn = "Option" /\ call.res # None
    /\ call.toks = <<SymTok("("), SymTok("."), IdentTok("a"), SymTok("."), IdentTok("b"),
                     SymTok(")"), SymTok("."), IdentTok("foo"), SymTok("."),
                     SymTok("("), IdentTok("a"), SymTok(")"),
                     SymTok("="), IntTok("1"), SymTok(";")>>
    /\ Val(Val(call.res).val).Name =
            <<OptionNameOf("", Some(FQIdentOf(TRUE, <<"a", "b">>))),
              OptionNameOf("foo", None),
              OptionNameOf("", Some(FQIdentOf(FALSE, <<"a">>)))>>

\* C23: the parser accepts an import with either modifier: import public "p";
\* gives that path with Public set, import weak "p"; parses with the weak
\* flag recorded, and a plain import in either quote gives the path verbatim
\* with no flag set.
C23_ImportModifiers ==
    (call.fn = "Import" /\ call.res # None) =>
        /\ Val(call.res).ok
        /\ Val(Val(call.res).val).Name = call.src.path
        /\ Val(Val(call.res).val).Public = (call.src.mod = "public")

\* the number a signed literal denotes
Signed(sign, digit) == IF sign = "-" THEN 0 - Atoi(digit) ELSE Atoi(digit)

\* C24: a numeric option value keeps its sign: -N parses to the negative
\* number of magnitude N, N and +N to the positive number N, so that -N and
\* N never parse to equal Values for N > 0.
C24_NumberKeepsSign ==
    (call.fn = "Value" /\ call.src.kind = "number" /\ call.res # None) =>
        /\ Val(call.res).ok
        /\ Val(Val(call.res).val).Number = Some(Signed(call.src.sign, call.src.digit))
        /\ (call.src.sign = "-" /\ call.src.digit # "0") =>
                Val(call.res).val # value(<<IntTok(call.src.digit), SymTok(";")>>, 1).val

\* tokens 2..k-1 are an option name of plain identifiers: a, a.b, a.b.c
NameShape(toks, k) ==
    /\ (k - 2) % 2 = 1
    /\ \A j \in 2..(k - 1) :
        IF (j - 2) % 2 = 0 THEN Is(toks, j, "Ident") ELSE Lit(toks, j, ".")
\* the entry starts with option, an option name and =
StartsAsOption(toks) ==
    /\ Lit(toks, 1, "option")
    /\ \E k \in 3..Len(toks) : Lit(toks, k, "=") /\ NameShape(toks, k)

\* C28: in a message body an entry that starts with option, an option name
\* and = is parsed as an Option entry and never as a Field whose type is
\* named option.
C28_OptionBeforeField ==
    (call.fn = "MessageEntry" /\ call.res # None /\ StartsAsOption(call.toks)) =>
        (Val(call.res).ok =>
            /\ Val(Val(call.res).val).Option # None
            /\ Val(Val(call.res).val).Field = None)

\* option foo = 1; is the option foo, not the field foo of type option
C28_Witness ==
    /\ call.fn = "MessageEntry" /\ call.res # None
    /\ call.toks = <<IdentTok("option"), IdentTok("foo"), SymTok("="), IntTok("1"),
                     SymTok(";")>>
    /\ Val(call.res).ok
    /\ Val(Val(Val(call.res).val).Option).Name = <<OptionNameOf("foo", None)>>
    /\ Val(Val(Val(Val(call.res).val).Option).Value).Number = Some(1)

\* C30: NewFQIdentFromString and String are inverse on strings: for every
\* string s, the empty one and those with a leading dot included, the result
\* is not nil, its String() is s, and FullyQualified is set exactly when s
\* starts with a dot.
C30_FQIdentRoundTrip ==
    (call.fn = "NewFQIdentFromString" /\ call.res # None) =>
        /\ Val(call.res) # None
        /\ FQIdentString(Val(Val(call.res))) = call.ident
        /\ Val(Val(call.res)).FullyQualified =
                (Len(call.ident) > 0 /\ call.ident[1] = ".")

(* -------------------------------------------- httprule (httprule.go) *)
\* most pieces in one path template
MaxPathPieces == 2
\* most additional bindings of one rule
MaxBindings == 2

\* a template is a list of pieces: literal text, or a variable {name}
LitPiece(text) == [var |-> FALSE, s |-> text]
VarPiece(name) == [var |-> TRUE, s |-> name]
\* pb.HttpRule: the pattern (a oneof: its kind and path, for a custom pattern
\* the custom kind too), Body and AdditionalBindings
HttpRuleOf(kind, custom, path, body, bindings) ==
    [Pattern |-> [kind |-> kind, custom |-> custom, path |-> path],
     Body |-> body, AdditionalBindings |-> bindings]
\* rule.GetGet(), GetPut(), ...: the path of that pattern, "" for another one
GetPath(rule, kind) == IF rule.Pattern.kind = kind THEN rule.Pattern.path ELSE <<>>
IsCustom(rule, kind) == rule.Pattern.kind = "custom" /\ rule.Pattern.custom = kind

templatePath(rule) ==
    IF GetPath(rule, "get") # <<>> THEN GetPath(rule, "get")
    ELSE IF GetPath(rule, "put") # <<>> THEN GetPath(rule, "put")
    ELSE IF GetPath(rule, "post") # <<>> THEN GetPath(rule, "post")
    ELSE IF GetPath(rule, "delete") # <<>> THEN GetPath(rule, "delete")
    ELSE IF IsCustom(rule, "HEAD") THEN rule.Pattern.path
    ELSE <<>>
method(rule) ==
    IF GetPath(rule, "get") # <<>> THEN "GET"
    ELSE IF GetPath(rule, "put") # <<>> THEN "PUT"
    ELSE IF GetPath(rule, "post") # <<>> THEN "POST"
    ELSE IF GetPath(rule, "delete") # <<>> THEN "DELETE"
    ELSE IF GetPath(rule, "patch") # <<>> THEN "PATCH"
    ELSE IF IsCustom(rule, "HEAD") THEN "HEAD"
    ELSE ""

\* mutant: a body with GET or DELETE is an error
ValidateHTTPRuleRejectsBody(rule) ==
    IF method(rule) = "" THEN Err("invalid method or empty path")
    ELSE IF (GetPath(rule, "get") # <<>> \/ GetPath(rule, "delete") # <<>>) /\ rule.Body # ""
         THEN Err("body not allowed with GET or DELETE request")
         ELSE None
ValidateHTTPRule(rule) ==
    IF method(rule) = "" THEN Err("invalid method or empty path") ELSE None

\* the request message type: its fields by text name, message typed or not
MsgFields == {"field1", "field2", "field3_sub"}
IsMessageKind(name) == name = "field3_sub"

\* interpolate(templ, msg, skipKeys): the error and the keys in use after it
RECURSIVE interpolateFrom(_, _, _)
interpolateFrom(templ, k, skipKeys) ==
    IF k > Len(templ) THEN [err |-> None, skip |-> skipKeys]
    ELSE IF ~templ[k].var THEN interpolateFrom(templ, k + 1, skipKeys)
    ELSE IF templ[k].s \in skipKeys
         THEN [err |-> Err("field already in use"), skip |-> skipKeys]
    ELSE IF templ[k].s \notin MsgFields
         THEN [err |-> Err("cannot find field in request proto message"), skip |-> skipKeys]
    ELSE IF IsMessageKind(templ[k].s)
         THEN [err |-> Err("only primitive types supported in path substitution"),
               skip |-> skipKeys]
    ELSE interpolateFrom(templ, k + 1, skipKeys \cup {templ[k].s})
interpolate(templ, skipKeys) == interpolateFrom(templ, 1, skipKeys)

\* jsonBody(bodyField, msg, skip)
jsonBody(bodyField, skip) ==
    IF bodyField = "" THEN [err |-> None, skip |-> skip]
    ELSE IF (bodyField = "*" /\ skip # {}) \/ bodyField \in skip
         THEN [err |-> Err("body and path fields overlap"), skip |-> skip]
    ELSE IF bodyField = "*" THEN [err |-> None, skip |-> skip]
    ELSE IF bodyField \notin MsgFields
         THEN [err |-> Err("field not in message"), skip |-> skip]
    ELSE IF ~IsMessageKind(bodyField)
         THEN [err |-> Err("field is not a message type"), skip |-> skip]
    ELSE [err |-> None, skip |-> skip \cup {bodyField}]

\* requestHeaders(httpRule, req, skip): the "header" bindings, interpolated
RECURSIVE requestHeadersFrom(_, _, _)
requestHeadersFrom(bindings, k, st) ==
    IF k > Len(bindings) \/ st.err # None THEN st
    ELSE IF IsCustom(bindings[k], "header")
         THEN requestHeadersFrom(bindings, k + 1, interpolate(bindings[k].Pattern.path, st.skip))
         ELSE requestHeadersFrom(bindings, k + 1, st)
requestHeaders(httpRule, skip) ==
    requestHeadersFrom(httpRule.AdditionalBindings, 1, [err |-> None, skip |-> skip])

\* urlRawQuery(bodyRule, m, skip): the top-level fields the query string
\* carries, req being the fields the message has a value for
urlRawQuery(bodyRule, req, skip) == IF bodyRule = "*" THEN {} ELSE req \ skip

\* NewHTTPRequest(rule, baseURL, req) for a base URL that parses
httpRequest(rule, req, skip) ==
    [err |-> None, Method |-> method(rule), Query |-> urlRawQuery(rule.Body, req, skip)]
httpError(e) == [err |-> e, Method |-> "", Query |-> {}]
newHTTPRequestHeaders(rule, req, h) ==
    IF h.err # None THEN httpError(h.err) ELSE httpRequest(rule, req, h.skip)
newHTTPRequestBody(rule, req, b) ==
    IF b.err # None THEN httpError(b.err)
    ELSE newHTTPRequestHeaders(rule, req, requestHeaders(rule, b.skip))
newHTTPRequestPath(rule, req, p) ==
    IF p.err # None THEN httpError(p.err)
    ELSE newHTTPRequestBody(rule, req, jsonBody(rule.Body, p.skip))
NewHTTPRequest(rule, req) ==
    IF ValidateHTTPRule(rule) # None THEN httpError(ValidateHTTPRule(rule))
    ELSE newHTTPRequestPath(rule, req, interpolate(templatePath(rule), {}))

\* the rules ValidateHTTPRule and NewHTTPRequest are checked on
Pieces == {LitPiece("v1"), VarPiece("field1"), VarPiece("field3_sub"), VarPiece("nope")}
PathTemplates == SeqUpTo(Pieces, MaxPathPieces)
\* the pattern kinds, "" for a rule without a pattern, and the custom kinds
PatternKinds ==
    {<<k, "">> : k \in {"", "get", "put", "post", "delete", "patch"}}
    \cup {<<"custom", c>> : c \in {"HEAD", "header"}}
Bodies == {"", "*", "field1", "field3_sub", "nope"}
\* additional bindings: headers "a: {field1}" and "b: {field2}", and one of
\* another kind
Bindings ==
    {HttpRuleOf("custom", "header", <<LitPiece("a"), VarPiece("field1")>>, "", <<>>),
     HttpRuleOf("custom", "header", <<LitPiece("b"), VarPiece("field2")>>, "", <<>>),
     HttpRuleOf("custom", "response_header", <<LitPiece("c"), VarPiece("field1")>>, "", <<>>)}
HttpRules ==
    {HttpRuleOf(pk[1], pk[2], p, b, ab) :
        pk \in PatternKinds, p \in PathTemplates, b \in Bodies,
        ab \in SeqUpTo(Bindings, MaxBindings)}
\* the fields the request message has a value for
Requests == {MsgFields, {"field1"}}
HttpCalls ==
    {[fn |-> "ValidateHTTPRule", rule |-> r, res |-> None] :
        r \in {h \in HttpRules : h.AdditionalBindings = <<>>}}
    \cup {[fn |-> "NewHTTPRequest", rule |-> r, req |-> q, res |-> None] :
            r \in HttpRules, q \in Requests}
HttpInit ==
    /\ Idle
    /\ call \in HttpCalls
callValidateHTTPRule ==
    /\ call.fn = "ValidateHTTPRule" /\ call.res = None
    /\ call' = [call EXCEPT !.res = Some(ValidateHTTPRule(call.rule))]
    /\ UNCHANGED pipeline
callNewHTTPRequest ==
    /\ call.fn = "NewHTTPRequest" /\ call.res = None
    /\ call' = [call EXCEPT !.res = Some(NewHTTPRequest(call.rule, call.req))]
    /\ UNCHANGED pipeline
HttpNext ==
    \/ callValidateHTTPRule
    \/ callNewHTTPRequest
HttpSpec == HttpInit /\ [][HttpNext]_vars

\* the rule has a supported method with a non-empty path
HasMethodWithPath(rule) ==
    /\ rule.Pattern.path # <<>>
    /\ \/ rule.Pattern.kind \in {"get", "put", "post", "delete", "patch"}
       \/ IsCustom(rule, "HEAD")

RECURSIVE UsesIn(_, _, _)
UsesIn(templ, k, name) ==
    IF k > Len(templ) THEN 0
    ELSE (IF templ[k].var /\ templ[k].s = name THEN 1 ELSE 0) + UsesIn(templ, k + 1, name)
RECURSIVE HeaderUses(_, _, _)
HeaderUses(bindings, k, name) ==
    IF k > Len(bindings) THEN 0
    ELSE (IF IsCustom(bindings[k], "header")
          THEN UsesIn(bindings[k].Pattern.path, 1, name) ELSE 0)
            + HeaderUses(bindings, k + 1, name)
BodyUses(rule, name) == IF rule.Body = "*" \/ rule.Body = name THEN 1 ELSE 0
\* how often the rule binds the field: in its path, its body and its headers
Uses(rule, name) ==
    UsesIn(rule.Pattern.path, 1, name) + BodyUses(rule, name)
        + HeaderUses(rule.AdditionalBindings, 1, name)

\* C29: NewHTTPRequest returns an error whenever a field of the request is
\* bound more than once among the path template, the body (a named field, or
\* * for the whole message) and the header bindings; on success no field
\* bound in the path, the body or a header is in the query string, and with
\* body * the query string is empty.
C29_NoDoubleBinding ==
    (call.fn = "NewHTTPRequest" /\ call.res # None) =>
        /\ (\E f \in MsgFields : Uses(call.rule, f) > 1) => Val(call.res).err # None
        /\ Val(call.res).err = None =>
            /\ \A f \in MsgFields : Uses(call.rule, f) > 0 => f \notin Val(call.res).Query
            /\ call.rule.Body = "*" => Val(call.res).Query = {}

(* ----------------------------------------- registry (registry/types.go) *)
\* most extensions declared at the top of one file
MaxExtensions == 2

\* descriptors, by full name: a message with its nested declarations, an
\* enum, an extension with the message it extends and its field number
MessageDesc(name, ms, es, xs) ==
    [Name |-> name, Messages |-> ms, Enums |-> es, Extensions |-> xs]
EnumDesc(name) == [Name |-> name]
ExtensionDesc(name, extendee, number) ==
    [Name |-> name, Extendee |-> extendee, Number |-> number]
\* a file is a container of messages, enums and extensions too
FileDesc(ms, es, xs) == [Messages |-> ms, Enums |-> es, Extensions |-> xs]

\* a type of a protoregistry.Types: dynamic (dynamicpb) or concrete
TypeOfDesc(kind, impl, d) ==
    [name |-> d.Name, kind |-> kind, impl |-> impl,
     extendee |-> IF kind = "extension" THEN d.Extendee ELSE "",
     number |-> IF kind = "extension" THEN d.Number ELSE 0]
\* Types.register: a name that is taken, by a type of any kind, is an error
\* and the registry stays as it is.  The error is not looked at.
register(t, typ) == IF \E r \in t : r.name = typ.name THEN t ELSE t \cup {typ}
\* t.RegisterMessage(dynamicpb.NewMessageType(md))
RegisterMessage(t, md) == register(t, TypeOfDesc("message", "dynamic", md))
\* t.RegisterEnum(dynamicpb.NewEnumType(ed))
RegisterEnum(t, ed) == register(t, TypeOfDesc("enum", "dynamic", ed))
\* t.RegisterExtension(dynamicpb.NewExtensionType(xd)): a field number that
\* is taken on the extended message is an error as well
RegisterExtension(t, xd) ==
    IF \E r \in t : r.kind = "extension" /\ r.extendee = xd.Extendee /\ r.number = xd.Number
    THEN t
    ELSE register(t, TypeOfDesc("extension", "dynamic", xd))

RECURSIVE addExtensions(_, _, _)
addExtensions(t, extds, i) ==
    IF i > Len(extds) THEN t
    ELSE addExtensions(RegisterExtension(t, extds[i]), extds, i + 1)
RECURSIVE addEnums(_, _, _)
addEnums(t, enumds, i) ==
    IF i > Len(enumds) THEN t ELSE addEnums(RegisterEnum(t, enumds[i]), enumds, i + 1)
\* addTypes(tc): the messages, each followed by what it contains, then the
\* enums, then the extensions
RECURSIVE addTypes(_, _)
RECURSIVE addMessages(_, _, _)
addMessages(t, mds, i) ==
    IF i > Len(mds) THEN t
    ELSE addMessages(addTypes(RegisterMessage(t, mds[i]), mds[i]), mds, i + 1)
addTypes(t, tc) ==
    addExtensions(addEnums(addMessages(t, tc.Messages, 1), tc.Enums, 1), tc.Extensions, 1)

\* the full names a container declares, one per declaration
RECURSIVE DeclaredNames(_)
RECURSIVE DeclaredNamesOf(_, _)
DeclaredNamesOf(mds, i) ==
    IF i > Len(mds) THEN <<>>
    ELSE <<mds[i].Name>> \o DeclaredNames(mds[i]) \o DeclaredNamesOf(mds, i + 1)
DeclaredNames(tc) ==
    DeclaredNamesOf(tc.Messages, 1)
        \o [i \in 1..Len(tc.Enums) |-> tc.Enums[i].Name]
        \o [i \in 1..Len(tc.Extensions) |-> tc.Extensions[i].Name]
RECURSIVE FilesNames(_, _)
FilesNames(fdset, i) ==
    IF i > Len(fdset) THEN <<>> ELSE DeclaredNames(fdset[i]) \o FilesNames(fdset, i + 1)
\* protodesc.NewFiles(fds): a name declared twice in the set is an error
NewFilesErr(fdset) ==
    LET names == FilesNames(fdset, 1) IN
    IF \E i, j \in 1..Len(names) : i # j /\ names[i] = names[j]
    THEN Err("name is already registered") ELSE None

\* files.RangeFiles(addTypes), the files taken in the order `order`
RECURSIVE rangeFiles(_, _, _, _)
rangeFiles(t, fdset, order, i) ==
    IF i > Len(order) THEN t
    ELSE rangeFiles(addTypes(t, fdset[order[i]]), fdset, order, i + 1)
\* AddDynamicTypes(t, fds): the error and the registry after the call
AddDynamicTypes(t, fdset, order) ==
    IF NewFilesErr(fdset) # None THEN [err |-> NewFilesErr(fdset), t |-> t]
    ELSE [err |-> None, t |-> rangeFiles(t, fdset, order, 1)]

\* the descriptor sets AddDynamicTypes is checked on: a file of package p,
\* alone or with a file of package q
Leaf(name) == MessageDesc(name, <<>>, <<>>, <<>>)
MessagesP ==
    {<<>>} \cup
    {<<MessageDesc("p.M", ms, es, xs)>> :
        ms \in {<<>>, <<Leaf("p.M.N")>>}, es \in {<<>>, <<EnumDesc("p.M.F")>>},
        xs \in {<<>>, <<ExtensionDesc("p.M.x", "g.Opt", 3)>>}}
ExtensionsP == {ExtensionDesc(n, "g.Opt", k) : n \in {"p.x", "p.y"}, k \in {1, 2}}
FilesP ==
    {FileDesc(ms, es, xs) :
        ms \in MessagesP, es \in {<<>>, <<EnumDesc("p.E")>>},
        xs \in SeqUpTo(ExtensionsP, MaxExtensions)}
FileQ == FileDesc(<<Leaf("q.M")>>, <<>>, <<ExtensionDesc("q.w", "g.Opt", 1)>>)
FileSets == {<<f>> : f \in FilesP} \cup {<<f, FileQ>> : f \in FilesP}
\* the concrete types a registry may hold before the call
ConcreteTypes ==
    {TypeOfDesc("message", "concrete", Leaf("p.M")),
     TypeOfDesc("enum", "concrete", EnumDesc("p.E")),
     TypeOfDesc("message", "concrete", Leaf("p.M.F")),
     TypeOfDesc("extension", "concrete", ExtensionDesc("p.x", "g.Opt", 1)),
     TypeOfDesc("extension", "concrete", ExtensionDesc("g.z", "g.Opt", 2))}
\* the orders RangeFiles may visit n files in
Orders(n) == {o \in [1..n -> 1..n] : \A i, j \in 1..n : o[i] = o[j] => i = j}

RegistryInit ==
    /\ Idle
    /\ call \in {[fn |-> "AddDynamicTypes", t |-> t, fds |-> fs, res |-> None] :
                    t \in SUBSET ConcreteTypes, fs \in FileSets}
callAddDynamicTypes ==
    /\ call.fn = "AddDynamicTypes" /\ call.res = None
    /\ \E order \in Orders(Len(call.fds)) :
        call' = [call EXCEPT !.res = Some(AddDynamicTypes(call.t, call.fds, order))]
    /\ UNCHANGED pipeline
RegistrySpec == RegistryInit /\ [][callAddDynamicTypes]_vars

\* a lookup by name: the types registered under it
FindByName(t, name) == {r \in t : r.name = name}
Range(s) == {s[i] : i \in 1..Len(s)}

\* C26: AddDynamicTypes never replaces a type of the registry: a name
\* registered before the call is looked up to the same type after it; every
\* type of the descriptor set whose name was not registered becomes a dynamic
\* type of the registry; and such collisions are no error.
C26_KeepsRegisteredTypes ==
    (call.fn = "AddDynamicTypes" /\ call.res # None) =>
        /\ \A r \in call.t : FindByName(Val(call.res).t, r.name) = {r}
        /\ NewFilesErr(call.fds) = None =>
            /\ Val(call.res).err = None
            /\ \A n \in Range(FilesNames(call.fds, 1)) :
                FindByName(call.t, n) = {} =>
                    \E r \in FindByName(Val(call.res).t, n) : r.impl = "dynamic"

(* --------------------------------------- lookupMessage (cmd/pb/main.go) *)
\* most characters of a message name given to lookupMessage
MaxLookupLen == 5
\* most files of the registry
MaxLookupFiles == 2

\* a message descriptor: its full name and the messages declared in it
MD(name, subs) == [FullName |-> name, Messages |-> subs]
\* strings.HasSuffix(s, suffix)
HasSuffix(s, suffix) ==
    Len(suffix) <= Len(s) /\ SubSeq(s, Len(s) - Len(suffix) + 1, Len(s)) = suffix
\* lowerName == mdLowerName || strings.HasSuffix(mdLowerName, "."+lowerName)
partialMatch(mdName, name) ==
    \/ ToLower(name) = <<".">> \o ToLower(mdName)
    \/ HasSuffix(<<".">> \o ToLower(mdName), <<".">> \o ToLower(name))

RECURSIVE lookupMessageInMD(_, _)
RECURSIVE lookupSubMessages(_, _, _, _)
lookupSubMessagesNext(subMessages, i, name, mds, r) ==
    IF r.exactMatch THEN r
    ELSE lookupSubMessages(subMessages, i + 1, name, mds \o r.mds)
lookupSubMessages(subMessages, i, name, mds) ==
    IF i > Len(subMessages) THEN [mds |-> mds, exactMatch |-> FALSE]
    ELSE lookupSubMessagesNext(subMessages, i, name, mds,
                               lookupMessageInMD(subMessages[i], name))
lookupMessageInMD(md, name) ==
    IF name = md.FullName \/ name = <<".">> \o md.FullName
    THEN [mds |-> <<md>>, exactMatch |-> TRUE]
    ELSE lookupSubMessages(md.Messages, 1, name,
                           IF partialMatch(md.FullName, name) THEN <<md>> ELSE <<>>)

\* reg.RangeFiles(...): the files in turn, the top-level messages of each
RECURSIVE lookupFiles(_, _, _, _)
RECURSIVE lookupFile(_, _, _, _, _)
\* mutant: a full match is appended to the partial matches found so far
lookupFileNextAppends(reg, f, i, name, result, r) ==
    IF r.exactMatch THEN result \o r.mds
    ELSE lookupFile(reg, f, i + 1, name, result \o r.mds)
lookupFileNext(reg, f, i, name, result, r) ==
    IF r.exactMatch THEN r.mds
    ELSE lookupFile(reg, f, i + 1, name, result \o r.mds)
lookupFile(reg, f, i, name, result) ==
    IF i > Len(reg[f]) THEN lookupFiles(reg, f + 1, name, result)
    ELSE lookupFileNext(reg, f, i, name, result, lookupMessageInMD(reg[f][i], name))
lookupFiles(reg, f, name, result) ==
    IF f > Len(reg) THEN result ELSE lookupFile(reg, f, 1, name, result)
lookupMessageReturn(result) ==
    IF Len(result) = 0 THEN [md |-> None, err |-> Err("message not found")]
    ELSE IF Len(result) > 1 THEN [md |-> None, err |-> Err("ambiguous message name")]
    ELSE [md |-> Some(result[1]), err |-> None]
lookupMessage(reg, name) == lookupMessageReturn(lookupFiles(reg, 1, name, <<>>))

\* the registries lookupMessage is checked on: files of package a and of no
\* package, with messages whose names differ in case only
LookupFiles ==
    {<<MD(<<"a", ".", "B">>, <<MD(<<"a", ".", "B", ".", "b">>, <<>>)>>)>>,
     <<MD(<<"a", ".", "b">>, <<>>)>>,
     <<MD(<<"B">>, <<>>), MD(<<"a">>, <<>>)>>,
     <<MD(<<"b", ".", "B">>, <<>>)>>}
LookupRegistries ==
    {r \in SeqUpTo(LookupFiles, MaxLookupFiles) :
        \A i, j \in 1..Len(r) : r[i] = r[j] => i = j}
LookupChars == {"a", "B", "b", "."}
LookupInit ==
    /\ Idle
    /\ call \in {[fn |-> "lookupMessage", reg |-> r, name |-> n, res |-> None] :
                    r \in LookupRegistries, n \in SeqUpTo(LookupChars, MaxLookupLen)}
callLookupMessage ==
    /\ call.fn = "lookupMessage" /\ call.res = None
    /\ call' = [call EXCEPT !.res = Some(lookupMessage(call.reg, call.name))]
    /\ UNCHANGED pipeline
LookupSpec == LookupInit /\ [][callLookupMessage]_vars

\* every message of the registry, nested ones included
RECURSIVE MessagesIn(_)
MessagesIn(mds) ==
    UNION {{mds[i]} \cup MessagesIn(mds[i].Messages) : i \in 1..Len(mds)}
AllMessages(reg) == UNION {MessagesIn(reg[f]) : f \in 1..Len(reg)}
\* the messages whose full name is the name, with or without one leading dot
FullMatches(reg, name) ==
    {m \in AllMessages(reg) : name = m.FullName \/ name = <<".">> \o m.FullName}
\* the lower-cased full name equals n or ends with "." + n
MatchesLower(m, n) ==
    ToLower(m.FullName) = n \/ HasSuffix(ToLower(m.FullName), <<".">> \o n)
Candidates(reg, name) == {m \in AllMessages(reg) : MatchesLower(m, ToLower(name))}
\* the same, a name written with one leading dot also matching as a whole
CandidatesDot(reg, name) ==
    {m \in AllMessages(reg) :
        \/ MatchesLower(m, ToLower(name))
        \/ ToLower(name) = <<".">> \o ToLower(m.FullName)}
\* the result for a set of full matches and a set of candidates
Resolves(res, full, cands) ==
    IF full # {} THEN res.err = None /\ res.md # None /\ Val(res.md) \in full
    ELSE IF cands = {} THEN res = [md |-> None, err |-> Err("message not found")]
    ELSE IF Cardinality(cands) > 1
         THEN res = [md |-> None, err |-> Err("ambiguous message name")]
    ELSE res.err = None /\ res.md # None /\ Val(res.md) \in cands

\* C27 as stated: a message whose full name is the name, with or without one
\* leading dot, is returned whatever the partial matches; otherwise the
\* candidates are the messages whose lower-cased full name equals the
\* lower-cased name or ends with "." + the lower-cased name: the single
\* candidate is returned, none is a not-found error, several an ambiguity
\* error.
C27_LookupAsStated ==
    (call.fn = "lookupMessage" /\ call.res # None) =>
        Resolves(Val(call.res), FullMatches(call.reg, call.name),
                 Candidates(call.reg, call.name))

\* C27, amended: as above, the candidates being the messages whose
\* lower-cased full name equals the lower-cased name, written with or without
\* one leading dot, or ends with "." + the lower-cased name.
C27_LookupMessage ==
    (call.fn = "lookupMessage" /\ call.res # None) =>
        Resolves(Val(call.res), FullMatches(call.reg, call.name),
                 CandidatesDot(call.reg, call.name))

\* .a.b finds a.B where a.b is not declared; a.b finds a.b where both are
C27_Witness ==
    /\ call.fn = "lookupMessage" /\ call.res # None
    /\ \/ /\ call.name = <<".", "a", ".", "b">>
          /\ FullMatches(call.reg, call.name) = {}
          /\ Val(call.res).md # None
          /\ Val(Val(call.res).md).FullName = <<"a", ".", "B">>
       \/ /\ call.name = <<"a", ".", "b">>
          /\ Cardinality(Candidates(call.reg, call.name)) > 1
          /\ Val(call.res).md # None
          /\ Val(Val(call.res).md).FullName = <<"a", ".", "b">>

====
